---------------------------- MODULE Spec2Model ----------------------------
(***************************************************************************)
(* A model of libgit2's mapped-window cache (src/src/mwindow.c) and of its *)
(* multi-pack-index reader and writer (src/src/multipack.c).               *)
(*                                                                         *)
(*   SpecCache  the pack-handle cache: git_mwindow_get_pack and            *)
(*              git_mwindow_put_pack, one step per statement group, run by *)
(*              several threads under git__mwindow_mutex.                  *)
(*   SpecLock   the same, with calls of git_mwindow_put_pack for a handle  *)
(*              that is not in the cache.                                  *)
(*   SpecMwc    the mapped-window cache: git_mwindow_open, _close,         *)
(*              _file_register, _file_deregister and _free_all, each one   *)
(*              critical section of git__mwindow_mutex, with the LRU       *)
(*              evictions they run.                                        *)
(*   SpecMidx   the multi-pack index: a writer that is given packs and     *)
(*              dumps or commits them, the file, git_multipack_index_open  *)
(*              of the file and git_multipack_index_entry_find.            *)
(*   SpecWriter the writer alone, given also pack files whose names do not *)
(*              end in ".pack", the file it commits and                    *)
(*              git_multipack_index_open of the file.                      *)
(*   SpecSizes  the length checks of git_multipack_index_parse on files of *)
(*              any size, given by the sizes of their chunks.              *)
(*   SpecRuntime  the life cycle: git_mwindow_global_init and the shutdown *)
(*              of the runtime, which runs git_mwindow_global_shutdown.    *)
(***************************************************************************)
EXTENDS Integers, Sequences, FiniteSets, TLC

(***************************************************************************)
(* Bounds of the model.                                                    *)
(***************************************************************************)
NThreads == 2       \* threads calling into the pack-handle cache
NPaths == 3         \* distinct pack paths handed to git_mwindow_get_pack
MaxHold == 2        \* handles one thread holds at a time
MaxHandles == 3     \* struct git_pack_file objects the allocator can hold
NFiles == 2         \* git_mwindow_file objects
NCursors == 3
MaxWin == 3
MaxTick == 3        \* cap of ctl.used_ctr
MaxExtra == 1
MaxFileSize == 5
WindowSize == 4     \* git_mwindow__window_size, scaled down
MappedLimit == 5
FileLimit == 1      \* git_mwindow__file_limit when it is set
MaxFail == 1        \* calls of git_mwindow_open that return NULL
MaxPacks == 3       \* packs added to one multi-pack-index writer
MaxDumps == 2       \* dumps of one multi-pack-index writer
MaxFlipOffset == 12  \* the last offset of the header and chunk table that is damaged
FlipStride == 64     \* the distance of the damaged offsets inside the chunks
MaxCalls == 5        \* calls of global init and of the runtime shutdown

\* The comparison signs of git_mwindow_scan_recently_used.
GIT_MWINDOW__LRU == -1
GIT_MWINDOW__MRU == 1

\* Constants of src/src/multipack.c.
MULTIPACK_INDEX_SIGNATURE == 1296647256

MULTIPACK_INDEX_VERSION == 1

MULTIPACK_INDEX_OBJECT_ID_VERSION == 1

MULTIPACK_INDEX_PACKFILE_NAMES_ID == 1347305805

MULTIPACK_INDEX_OID_FANOUT_ID == 1330201670

MULTIPACK_INDEX_OID_LOOKUP_ID == 1330201676

MULTIPACK_INDEX_OBJECT_OFFSETS_ID == 1330595398

MULTIPACK_INDEX_OBJECT_LARGE_OFFSETS_ID == 1280263750

GIT_OID_RAWSZ == 20

GIT_OID_HEXSZ == 40

\* sizeof(struct git_multipack_index_header).
HeaderSize == 12

\* The size of one chunk header.
ChunkHeaderSize == 12

\* The entries of the OID Fanout table.
FanoutEntries == 256

\* The digest that stands for SHA-1 is taken modulo this prime.
HashModulus == 65521

VARIABLES
    pack_cache,     \* git__pack_cache: canonical name -> handle (0: absent)
    packs,          \* the heap of struct git_pack_file: handle -> record
    mutex,          \* git__mwindow_mutex: 0 when free, else the holder
    tpc,            \* per thread: the statement it is at
    tloc,           \* per thread: the locals of the call it is in
    held,           \* per thread: the handles its gets returned, not yet put
    tret,           \* per thread: the value its last call returned
    windowfiles,    \* ctl.windowfiles: the vector of registered files
    mwf,            \* per file: windows (head of its list) and fd
    win,            \* the heap of git_mwindow: address -> record
    ctl,            \* git_mwindow__mem_ctl: mapped, open_windows, used_ctr
    cursor,         \* per cursor: the window it names (0: NULL)
    file_limit,     \* git_mwindow__file_limit (0: unlimited)
    last_freed,     \* the pin counts that the windows the last call
                    \* released had when it released them
    open_failures,  \* the calls of git_mwindow_open that returned NULL
    w_packs,        \* w->packs: the vector of the writer's packs
    add_order,      \* the packs in the order they were added
    dumps,          \* the images that the dumps of the writer returned
    disk,           \* the multi-pack-index file: who wrote it, its bytes
    opened,         \* what git_multipack_index_open returned
    looked,         \* the last lookup and what it returned
    refresh,        \* the last git_multipack_index_needs_refresh: the file, the answer
    runtime,        \* git__pack_cache is set, the mutex, the shutdown hook
    life,           \* the calls of global init and of the runtime shutdown
    layout,         \* a multi-pack-index file by its sizes alone
    verdict         \* what git_multipack_index_parse made of those sizes

cacheVars == <<pack_cache, packs, mutex, tpc, tloc, held, tret>>

mwVars ==
    <<windowfiles, mwf, win, ctl, cursor, file_limit, last_freed, open_failures>>

midxVars == <<w_packs, add_order, dumps, disk, opened, looked, refresh>>

rtVars == <<runtime, life>>

szVars == <<layout, verdict>>

vars == <<cacheVars, mwVars, midxVars, rtVars, szVars>>

(***************************************************************************)
(* The pack-handle cache                                                   *)
(***************************************************************************)
Threads == 1..NThreads

\* Path 0 is a path git_packfile__name rejects.
Paths == 0..NPaths

Handles == 1..MaxHandles

\* The canonical pack name of a path: two spellings of one pack (its .idx
\* and its .pack path) share a name.
git_packfile__name(path) == (path + 1) \div 2

Names == {git_packfile__name(p) : p \in Paths \ {0}}

NoPack == [live |-> FALSE, pack_name |-> 0, refcount |-> 0]

NoLocals == [path |-> 0, packname |-> 0, pack |-> 0, error |-> 0]

FreeHandles == {h \in Handles : ~packs[h].live}

MinOf(S) == CHOOSE x \in S : \A y \in S : x <= y

InitCache ==
    /\ pack_cache = [n \in Names |-> 0]
    /\ packs = [h \in Handles |-> NoPack]
    /\ mutex = 0
    /\ tpc = [t \in Threads |-> "idle"]
    /\ tloc = [t \in Threads |-> NoLocals]
    /\ held = [t \in Threads |-> <<>>]
    /\ tret = [t \in Threads |-> 0]

\* git_mwindow_get_pack, lines 70-71: the name of the pack, before the lock.
GetCall(t, path) ==
    /\ tpc[t] = "idle"
    /\ Len(held[t]) < MaxHold
    /\ IF path = 0
       THEN /\ tret' = [tret EXCEPT ![t] = -1]
            /\ UNCHANGED <<tpc, tloc>>
       ELSE /\ tpc' = [tpc EXCEPT ![t] = "get_lock"]
            /\ tloc' = [tloc EXCEPT ![t] =
                   [NoLocals EXCEPT !.path = path,
                                    !.packname = git_packfile__name(path)]]
            /\ UNCHANGED tret
    /\ UNCHANGED <<pack_cache, packs, mutex, held>>
    /\ UNCHANGED <<mwVars, midxVars, rtVars, szVars>>

\* line 73: git_mutex_lock.
GetLock(t) ==
    /\ tpc[t] = "get_lock"
    /\ mutex = 0
    /\ mutex' = t
    /\ tpc' = [tpc EXCEPT ![t] = "get_lookup"]
    /\ UNCHANGED <<pack_cache, packs, tloc, held, tret>>
    /\ UNCHANGED <<mwVars, midxVars, rtVars, szVars>>

\* A lookup that returns the handle it finds without counting the reference.
GetLookupNoInc(t) ==
    /\ tpc[t] = "get_lookup"
    /\ LET pack == pack_cache[tloc[t].packname] IN
       IF pack # 0
       THEN /\ tloc' = [tloc EXCEPT ![t].pack = pack]
            /\ tpc' = [tpc EXCEPT ![t] = "get_unlock"]
       ELSE /\ tpc' = [tpc EXCEPT ![t] = "get_alloc"]
            /\ UNCHANGED tloc
    /\ UNCHANGED <<pack_cache, packs, mutex, held, tret>>
    /\ UNCHANGED <<mwVars, midxVars, rtVars, szVars>>

\* lines 78-86: the lookup, and the increment of a handle that is there.
GetLookup(t) ==
    /\ tpc[t] = "get_lookup"
    /\ LET pack == pack_cache[tloc[t].packname] IN
       IF pack # 0
       THEN /\ packs' = [packs EXCEPT ![pack].refcount = @ + 1]
            /\ tloc' = [tloc EXCEPT ![t].pack = pack]
            /\ tpc' = [tpc EXCEPT ![t] = "get_unlock"]
       ELSE /\ tpc' = [tpc EXCEPT ![t] = "get_alloc"]
            /\ UNCHANGED <<packs, tloc>>
    /\ UNCHANGED <<pack_cache, mutex, held, tret>>
    /\ UNCHANGED <<mwVars, midxVars, rtVars, szVars>>

\* lines 89-92: git_packfile_alloc, which may fail.
GetAlloc(t) ==
    /\ tpc[t] = "get_alloc"
    /\ \E ok \in BOOLEAN :
         IF ok /\ FreeHandles # {}
         THEN LET h == MinOf(FreeHandles) IN
              /\ packs' = [packs EXCEPT ![h] =
                     [live |-> TRUE, pack_name |-> git_packfile__name(tloc[t].path),
                      refcount |-> 0]]
              /\ tloc' = [tloc EXCEPT ![t].pack = h]
              /\ tpc' = [tpc EXCEPT ![t] = "get_inc"]
         ELSE /\ tloc' = [tloc EXCEPT ![t].error = -1]
              /\ tpc' = [tpc EXCEPT ![t] = "get_unlock"]
              /\ UNCHANGED packs
    /\ UNCHANGED <<pack_cache, mutex, held, tret>>
    /\ UNCHANGED <<mwVars, midxVars, rtVars, szVars>>

\* line 94: git_atomic_inc of the new handle.
GetInc(t) ==
    /\ tpc[t] = "get_inc"
    /\ packs' = [packs EXCEPT ![tloc[t].pack].refcount = @ + 1]
    /\ tpc' = [tpc EXCEPT ![t] = "get_set"]
    /\ UNCHANGED <<pack_cache, mutex, tloc, held, tret>>
    /\ UNCHANGED <<mwVars, midxVars, rtVars, szVars>>

\* line 96: git_strmap_set, which may fail.
GetSet(t) ==
    /\ tpc[t] = "get_set"
    /\ \E ok \in BOOLEAN :
         IF ok
         THEN /\ pack_cache' =
                   [pack_cache EXCEPT ![packs[tloc[t].pack].pack_name] = tloc[t].pack]
              /\ UNCHANGED tloc
         ELSE /\ tloc' = [tloc EXCEPT ![t].error = -1]
              /\ UNCHANGED pack_cache
    /\ tpc' = [tpc EXCEPT ![t] = "get_unlock"]
    /\ UNCHANGED <<packs, mutex, held, tret>>
    /\ UNCHANGED <<mwVars, midxVars, rtVars, szVars>>

\* lines 83, 90, 97: git_mutex_unlock.
GetUnlock(t) ==
    /\ tpc[t] = "get_unlock"
    /\ mutex' = 0
    /\ tpc' = [tpc EXCEPT ![t] = "get_ret"]
    /\ UNCHANGED <<pack_cache, packs, tloc, held, tret>>
    /\ UNCHANGED <<mwVars, midxVars, rtVars, szVars>>

\* lines 84-85, 91, 99-105: after the unlock, the handle whose insertion
\* failed is freed; a handle that was found or inserted is returned.
GetRet(t) ==
    /\ tpc[t] = "get_ret"
    /\ IF tloc[t].error < 0
       THEN /\ packs' = IF tloc[t].pack # 0
                        THEN [packs EXCEPT ![tloc[t].pack] = NoPack]
                        ELSE packs
            /\ tret' = [tret EXCEPT ![t] = -1]
            /\ UNCHANGED held
       ELSE /\ held' = [held EXCEPT ![t] = Append(@, tloc[t].pack)]
            /\ tret' = [tret EXCEPT ![t] = 0]
            /\ UNCHANGED packs
    /\ tpc' = [tpc EXCEPT ![t] = "idle"]
    /\ tloc' = [tloc EXCEPT ![t] = NoLocals]
    /\ UNCHANGED <<pack_cache, mutex>>
    /\ UNCHANGED <<mwVars, midxVars, rtVars, szVars>>

RemoveAt(s, i) == SubSeq(s, 1, i - 1) \o SubSeq(s, i + 1, Len(s))

\* git_mwindow_put_pack is called with a handle an earlier get returned.
PutCall(t, i) ==
    /\ tpc[t] = "idle"
    /\ i \in 1..Len(held[t])
    /\ tloc' = [tloc EXCEPT ![t] = [NoLocals EXCEPT !.pack = held[t][i]]]
    /\ held' = [held EXCEPT ![t] = RemoveAt(@, i)]
    /\ tpc' = [tpc EXCEPT ![t] = "put_lock"]
    /\ UNCHANGED <<pack_cache, packs, mutex, tret>>
    /\ UNCHANGED <<mwVars, midxVars, rtVars, szVars>>

\* git_mwindow_put_pack is called with a handle that no get returned: a
\* struct git_pack_file that git_packfile_alloc made for the caller, whose
\* name is not in the cache when the call is made.
PutForeignCall(t, name) ==
    /\ tpc[t] = "idle"
    /\ FreeHandles # {}
    /\ pack_cache[name] = 0
    /\ packs' = [packs EXCEPT ![MinOf(FreeHandles)] =
           [live |-> TRUE, pack_name |-> name, refcount |-> 0]]
    /\ tloc' = [tloc EXCEPT ![t] = [NoLocals EXCEPT !.pack = MinOf(FreeHandles)]]
    /\ tpc' = [tpc EXCEPT ![t] = "put_lock"]
    /\ UNCHANGED <<pack_cache, mutex, held, tret>>
    /\ UNCHANGED <<mwVars, midxVars, rtVars, szVars>>

\* line 112: git_mutex_lock.
PutLock(t) ==
    /\ tpc[t] = "put_lock"
    /\ mutex = 0
    /\ mutex' = t
    /\ tpc' = [tpc EXCEPT ![t] = "put_body"]
    /\ UNCHANGED <<pack_cache, packs, tloc, held, tret>>
    /\ UNCHANGED <<mwVars, midxVars, rtVars, szVars>>

\* lines 116-125: the assertion returns -1 with the mutex still held; else
\* the decrement, and the removal and the free of a handle that reached 0.
PutBody(t) ==
    /\ tpc[t] = "put_body"
    /\ LET pack == tloc[t].pack
           name == packs[pack].pack_name
           count == packs[pack].refcount - 1
       IN IF ~(packs[pack].live /\ pack_cache[name] # 0)
          THEN /\ tret' = [tret EXCEPT ![t] = -1]
               /\ tpc' = [tpc EXCEPT ![t] = "idle"]
               /\ tloc' = [tloc EXCEPT ![t] = NoLocals]
               /\ UNCHANGED <<pack_cache, packs>>
          ELSE /\ IF count = 0
                  THEN /\ pack_cache' = [pack_cache EXCEPT ![name] = 0]
                       /\ packs' = [packs EXCEPT ![pack] = NoPack]
                  ELSE /\ packs' = [packs EXCEPT ![pack].refcount = count]
                       /\ UNCHANGED pack_cache
               /\ tpc' = [tpc EXCEPT ![t] = "put_unlock"]
               /\ UNCHANGED <<tloc, tret>>
    /\ UNCHANGED <<mutex, held>>
    /\ UNCHANGED <<mwVars, midxVars, rtVars, szVars>>

\* lines 127-128: git_mutex_unlock and the return.
PutUnlock(t) ==
    /\ tpc[t] = "put_unlock"
    /\ mutex' = 0
    /\ tret' = [tret EXCEPT ![t] = 0]
    /\ tpc' = [tpc EXCEPT ![t] = "idle"]
    /\ tloc' = [tloc EXCEPT ![t] = NoLocals]
    /\ UNCHANGED <<pack_cache, packs, held>>
    /\ UNCHANGED <<mwVars, midxVars, rtVars, szVars>>

NextCache ==
    \/ \E t \in Threads, path \in Paths : GetCall(t, path)
    \/ \E t \in Threads : GetLock(t)
    \/ \E t \in Threads : GetLookup(t)
    \/ \E t \in Threads : GetAlloc(t)
    \/ \E t \in Threads : GetInc(t)
    \/ \E t \in Threads : GetSet(t)
    \/ \E t \in Threads : GetUnlock(t)
    \/ \E t \in Threads : GetRet(t)
    \/ \E t \in Threads, i \in 1..MaxHold : PutCall(t, i)
    \/ \E t \in Threads : PutLock(t)
    \/ \E t \in Threads : PutBody(t)
    \/ \E t \in Threads : PutUnlock(t)

\* The same threads, which also put handles that are not in the cache.
NextLock ==
    \/ NextCache
    \/ \E t \in Threads, name \in Names : PutForeignCall(t, name)

(***************************************************************************)
(* The mapped-window cache                                                 *)
(*                                                                         *)
(* The eviction routines are operators on a record m of the state they     *)
(* read and write: win, mwf, windowfiles, ctl, and freed, the pin counts   *)
(* that the windows released so far had when they were released.           *)
(* A window is the address of a git_mwindow; the allocator may hand out a  *)
(* freed address again.  ctl.mmap_calls and the two peak counters are only *)
(* statistics and are left out.                                            *)
(***************************************************************************)
Files == 1..NFiles

Cursors == 1..NCursors

Addrs == 1..MaxWin

\* The file whose reader owns cursor c.
CursorFile(c) == ((c - 1) % NFiles) + 1

\* mwf->size.
FileSize(f) == IF MaxFileSize > 2 * (f - 1) + 1 THEN MaxFileSize - 2 * (f - 1) ELSE 1

FreeWin ==
    [live |-> FALSE, offset |-> 0, len |-> 0, last_used |-> 0,
     inuse_cnt |-> 0, next |-> 0]

Mw ==
    [win |-> win, mwf |-> mwf, windowfiles |-> windowfiles, ctl |-> ctl,
     freed |-> {}]

\* git_mwindow_global_init has run; the file limit was set before any file
\* was registered.
InitMw ==
    /\ windowfiles = <<>>
    /\ mwf = [f \in Files |-> [windows |-> 0, fd |-> -1]]
    /\ win = [a \in Addrs |-> FreeWin]
    /\ ctl = [mapped |-> 0, open_windows |-> 0, used_ctr |-> 0]
    /\ cursor = [c \in Cursors |-> 0]
    /\ file_limit = FileLimit
    /\ last_freed = {}
    /\ open_failures = 0

\* The first occurrence of f removed from vector v (git_vector_remove).
RECURSIVE VectorRemove(_, _)
VectorRemove(v, f) ==
    IF v = <<>> THEN <<>>
    ELSE IF Head(v) = f THEN Tail(v)
    ELSE <<Head(v)>> \o VectorRemove(Tail(v), f)

\* git_futils_mmap_free and git__free of window w.
ReleaseWindow(m, w) ==
    [m EXCEPT !.ctl.mapped = @ - m.win[w].len,
              !.ctl.open_windows = @ - 1,
              !.win[w] = FreeWin,
              !.freed = @ \cup {m.win[w].inuse_cnt}]

\* The loop of git_mwindow_free_all_locked, lines 171-182: the assertion
\* on a pinned window returns -1 and leaves it and its successors linked.
RECURSIVE FreeWindows(_, _)
FreeWindows(m, f) ==
    IF m.mwf[f].windows = 0 THEN [ret |-> 0, m |-> m]
    ELSE IF m.win[m.mwf[f].windows].inuse_cnt # 0 THEN [ret |-> -1, m |-> m]
    ELSE FreeWindows(
             [ReleaseWindow(m, m.mwf[f].windows)
                 EXCEPT !.mwf[f].windows = m.win[m.mwf[f].windows].next], f)

git_mwindow_free_all_locked(m, f) ==
    FreeWindows([m EXCEPT !.windowfiles = VectorRemove(@, f)], f)

\* git_mwindow_contains, lines 190-195.
git_mwindow_contains(m, w, offset) ==
    /\ m.win[w].offset <= offset
    /\ offset <= m.win[w].offset + m.win[w].len

\* The loop of git_mwindow_scan_recently_used, lines 226-246.
RECURSIVE ScanList(_, _, _, _, _, _, _, _)
ScanList(m, w, w_last, lru_window, lru_last, found, only_unused, sign) ==
    IF w = 0 THEN [ret |-> found, window |-> lru_window, last |-> lru_last]
    ELSE IF m.win[w].inuse_cnt # 0
    THEN IF only_unused
         THEN [ret |-> FALSE, window |-> lru_window, last |-> lru_last]
         ELSE ScanList(m, m.win[w].next, w, lru_window, lru_last, found,
                       only_unused, sign)
    ELSE IF \/ lru_window = 0
            \/ sign = GIT_MWINDOW__LRU
                 /\ m.win[lru_window].last_used > m.win[w].last_used
            \/ sign = GIT_MWINDOW__MRU
                 /\ m.win[lru_window].last_used < m.win[w].last_used
    THEN ScanList(m, m.win[w].next, w, w, w_last, TRUE, only_unused, sign)
    ELSE ScanList(m, m.win[w].next, w, lru_window, lru_last, found,
                  only_unused, sign)

\* A scan that does not skip the windows in use.
RECURSIVE ScanListAnyPin(_, _, _, _, _, _, _, _)
ScanListAnyPin(m, w, w_last, lru_window, lru_last, found, only_unused, sign) ==
    IF w = 0 THEN [ret |-> found, window |-> lru_window, last |-> lru_last]
    ELSE IF \/ lru_window = 0
            \/ sign = GIT_MWINDOW__LRU
                 /\ m.win[lru_window].last_used > m.win[w].last_used
            \/ sign = GIT_MWINDOW__MRU
                 /\ m.win[lru_window].last_used < m.win[w].last_used
    THEN ScanListAnyPin(m, m.win[w].next, w, w, w_last, TRUE, only_unused, sign)
    ELSE ScanListAnyPin(m, m.win[w].next, w, lru_window, lru_last, found,
                        only_unused, sign)

\* Lines 248-254: the outputs are written only when a window was found.
ScanOut(r, out_window, out_last) ==
    IF r.ret THEN r
    ELSE [ret |-> FALSE, window |-> out_window, last |-> out_last]

ScanAnyPin(m, f, out_window, out_last, only_unused, sign) ==
    ScanOut(ScanListAnyPin(m, m.mwf[f].windows, 0, out_window, out_last, FALSE,
                           only_unused, sign),
            out_window, out_last)

git_mwindow_scan_recently_used(m, f, out_window, out_last, only_unused, sign) ==
    ScanOut(ScanList(m, m.mwf[f].windows, 0, out_window, out_last, FALSE,
                     only_unused, sign),
            out_window, out_last)

\* A loop that keeps the window of the first file in which it found one.
KeepFirstFound(acc, r, cur) ==
    IF acc.window # 0 THEN acc
    ELSE IF r.ret THEN [window |-> r.window, last |-> r.last, list |-> cur]
    ELSE acc

\* Lines 269-272: the list of the window found last is remembered.
LruWindowStep(acc, r, cur) ==
    IF r.ret THEN [window |-> r.window, last |-> r.last, list |-> cur]
    ELSE acc

\* The loop of git_mwindow_close_lru_window over ctl.windowfiles.
RECURSIVE LruWindowScan(_, _, _)
LruWindowScan(m, i, acc) ==
    IF i > Len(m.windowfiles) THEN acc
    ELSE LruWindowScan(m, i + 1,
             LruWindowStep(acc,
                 git_mwindow_scan_recently_used(
                     m, m.windowfiles[i], acc.window, acc.last, FALSE,
                     GIT_MWINDOW__LRU),
                 m.windowfiles[i]))

\* Lines 275-291: unlink and release the window the scan chose.
CloseLruWindowAt(m, s) ==
    IF s.window = 0 THEN [ret |-> -1, m |-> m]
    ELSE [ret |-> 0,
          m |-> ReleaseWindow(
                    IF s.last # 0
                    THEN [m EXCEPT !.win[s.last].next = m.win[s.window].next]
                    ELSE [m EXCEPT !.mwf[s.list].windows = m.win[s.window].next],
                    s.window)]

git_mwindow_close_lru_window(m) ==
    CloseLruWindowAt(m, LruWindowScan(m, 1, [window |-> 0, last |-> 0, list |-> 0]))

\* Lines 309-315: lru_window is never assigned, so the test of line 314
\* holds for every file the scan accepts.
LruFileStep(m, lru_file, lru_window, current_file, r) ==
    IF ~r.ret THEN lru_file
    ELSE IF \/ lru_window = 0
            \/ m.win[lru_window].last_used > m.win[r.window].last_used
    THEN current_file
    ELSE lru_file

\* The loop of git_mwindow_close_lru_file over ctl.windowfiles.
RECURSIVE LruFileScan(_, _, _)
LruFileScan(m, i, lru_file) ==
    IF i > Len(m.windowfiles) THEN lru_file
    ELSE LruFileScan(m, i + 1,
             LruFileStep(m, lru_file, 0, m.windowfiles[i],
                 git_mwindow_scan_recently_used(
                     m, m.windowfiles[i], 0, 0, TRUE, GIT_MWINDOW__MRU)))

\* Lines 318-327: free the windows of the chosen file and close it.
CloseLruFileAt(m, lru_file) ==
    IF lru_file = 0 THEN [ret |-> -1, m |-> m]
    ELSE [ret |-> 0,
          m |-> [git_mwindow_free_all_locked(m, lru_file).m
                    EXCEPT !.mwf[lru_file].fd = -1]]

git_mwindow_close_lru_file(m) == CloseLruFileAt(m, LruFileScan(m, 1, 0))

\* A new_window that evicts nothing before it maps.
NoEviction(m) == m

\* while (mapped_limit < ctl->mapped && close_lru_window() == 0), line 355.
RECURSIVE EvictOverLimit(_)
RECURSIVE EvictOverLimitNext(_, _)
EvictOverLimitNext(m, r) == IF r.ret = 0 THEN EvictOverLimit(r.m) ELSE m

EvictOverLimit(m) ==
    IF MappedLimit < m.ctl.mapped
    THEN EvictOverLimitNext(m, git_mwindow_close_lru_window(m))
    ELSE m

\* while (close_lru_window() == 0), line 370.
RECURSIVE EvictAll(_)
RECURSIVE EvictAllNext(_, _)
EvictAllNext(m, r) == IF r.ret = 0 THEN EvictAll(r.m) ELSE m

EvictAll(m) == EvictAllNext(m, git_mwindow_close_lru_window(m))

Min2(a, b) == IF a < b THEN a ELSE b

\* Lines 337-351: the window starts at a multiple of half the window size
\* and ends at the end of the file or a window size later.
WindowOffset(offset) == (offset \div (WindowSize \div 2)) * (WindowSize \div 2)

WindowLen(size, offset) == Min2(size - WindowOffset(offset), WindowSize)

\* Lines 379-388: the window is filled in and counted.
NewWindowDone(m, a, woffset, len) ==
    [w |-> a,
     m |-> [m EXCEPT !.win[a] =
                         [live |-> TRUE, offset |-> woffset, len |-> len,
                          last_used |-> 0, inuse_cnt |-> 0, next |-> 0],
                     !.ctl.open_windows = @ + 1]]

\* Lines 364-377: the mapping, tried again after every unused window was
\* closed; m1 is the state after the evictions of line 355.
NewWindowMap(m1, a, woffset, len, bad1, bad2) ==
    IF ~bad1 THEN NewWindowDone(m1, a, woffset, len)
    ELSE IF bad2 THEN [w |-> 0, m |-> EvictAll(m1)]
    ELSE NewWindowDone(EvictAll(m1), a, woffset, len)

\* new_window: a is the address git__malloc returned (0: NULL); fail1 and
\* fail2 say whether the first and the second mmap fail (a closed
\* descriptor fails both).
new_window(m, a, fd, size, offset, fail1, fail2) ==
    IF a = 0 THEN [w |-> 0, m |-> m]
    ELSE NewWindowMap(
             EvictOverLimit([m EXCEPT !.ctl.mapped = @ + WindowLen(size, offset)]),
             a, WindowOffset(offset), WindowLen(size, offset),
             fd < 0 \/ fail1, fd < 0 \/ fail2)

\* The search of lines 415-419 for a window of the file that has the range.
RECURSIVE FindWindow(_, _, _, _)
FindWindow(m, w, offset, extra) ==
    IF w = 0 THEN 0
    ELSE IF git_mwindow_contains(m, w, offset)
            /\ git_mwindow_contains(m, w, offset + extra)
    THEN w
    ELSE FindWindow(m, m.win[w].next, offset, extra)

\* Lines 437-441: the cursor is moved and the window pinned when the window
\* is not the one the cursor names.
OpenStore(m2, cur, w, created) ==
    [ret |-> TRUE,
     m |-> IF w # cur
           THEN [m2 EXCEPT !.win[w].last_used = m2.ctl.used_ctr,
                           !.win[w].inuse_cnt = @ + 1,
                           !.ctl.used_ctr = @ + 1]
           ELSE m2,
     cursor |-> w,
     created |-> created]

\* Lines 425-433: a window found is used; else the new one, nw, is linked
\* at the head of the list of the file, or the call returns NULL.
OpenUse(m1, f, cur, found, nw) ==
    IF found # 0 THEN OpenStore(m1, cur, found, FALSE)
    ELSE IF nw.w = 0
    THEN [ret |-> FALSE, m |-> nw.m, cursor |-> cur, created |-> FALSE]
    ELSE OpenStore([nw.m EXCEPT !.win[nw.w].next = nw.m.mwf[f].windows,
                                !.mwf[f].windows = nw.w],
                   cur, nw.w, TRUE)

\* Lines 410-434, entered when the cursor has no window with the range: m1
\* is the state after the window of the cursor was unpinned.
OpenSearch(m1, f, cur, offset, extra, a, fail1, fail2) ==
    OpenUse(m1, f, cur,
            FindWindow(m1, m1.mwf[f].windows, offset, extra),
            new_window(m1, a, m1.mwf[f].fd, FileSize(f), offset, fail1, fail2))

\* git_mwindow_open between lock and unlock.  cur is *cursor; a read of a
\* freed window (a cursor left dangling) may see anything: stale says
\* whether the freed memory still looks like a window with the range; a
\* write to it is lost.  The result: ret (FALSE: NULL), m, cursor, created.
git_mwindow_open(m, f, cur, offset, extra, a, fail1, fail2, stale) ==
    IF /\ cur # 0
       /\ IF m.win[cur].live
          THEN /\ git_mwindow_contains(m, cur, offset)
               /\ git_mwindow_contains(m, cur, offset + extra)
          ELSE stale
    THEN [ret |-> TRUE, m |-> m, cursor |-> cur, created |-> FALSE]
    ELSE OpenSearch(IF cur # 0 /\ m.win[cur].live
                    THEN [m EXCEPT !.win[cur].inuse_cnt = @ - 1]
                    ELSE m,
                    f, cur, offset, extra, a, fail1, fail2)

\* The state after a call that left m.
Commit(m) ==
    /\ win' = m.win
    /\ mwf' = m.mwf
    /\ windowfiles' = m.windowfiles
    /\ ctl' = m.ctl
    /\ last_freed' = m.freed

FreeAddrs == {a \in Addrs : ~win[a].live}

\* The bytes of the live windows, and the live windows.
RECURSIVE SumLen(_)
SumLen(S) ==
    IF S = {} THEN 0
    ELSE win[CHOOSE x \in S : TRUE].len + SumLen(S \ {CHOOSE x \in S : TRUE})

LiveWins == {a \in Addrs : win[a].live}

\* What git__malloc may return (NULL, or the lowest free address: a
\* first-fit allocator) and how the two mmap calls may fail.
AllocChoices ==
    {<<0, FALSE, FALSE>>} \cup
    ((IF FreeAddrs = {} THEN {} ELSE {MinOf(FreeAddrs)})
        \X {FALSE} \X {FALSE}) \cup
    ((IF FreeAddrs = {} THEN {} ELSE {MinOf(FreeAddrs)})
        \X {TRUE} \X BOOLEAN)

\* The choices that decide the outcome of a call: what a read of freed
\* memory shows when the cursor dangles, and the allocator and mmap outcomes
\* when line 426 is reached.
OpenChoices(f, cur, offset, extra) ==
    (IF cur # 0 /\ ~win[cur].live THEN {<<0, FALSE, FALSE, TRUE>>} ELSE {}) \cup
    (IF \/ /\ cur # 0
           /\ win[cur].live
           /\ git_mwindow_contains(Mw, cur, offset)
           /\ git_mwindow_contains(Mw, cur, offset + extra)
        \/ FindWindow(Mw, mwf[f].windows, offset, extra) # 0
     THEN {<<0, FALSE, FALSE, FALSE>>}
     ELSE {<<ch[1], ch[2], ch[3], FALSE>> : ch \in AllocChoices})

OpenResult(f, c, offset, extra, ch) ==
    git_mwindow_open(Mw, f, cursor[c], offset, extra, ch[1], ch[2], ch[3], ch[4])

\* A call the model explores: by the owner of the cursor, inside the file,
\* on a file whose descriptor the caller has open.
OpenCall(f, c, offset, extra) ==
    /\ CursorFile(c) = f
    /\ offset < FileSize(f)
    /\ mwf[f].fd >= 0
    /\ ctl.used_ctr < MaxTick
    /\ cursor[c] # 0 => win[cursor[c]].inuse_cnt >= 0

\* The call returns r: the cursor is written, the state left is kept.
OpenReturn(c, r) ==
    /\ ~r.ret => open_failures < MaxFail
    /\ Commit(r.m)
    /\ cursor' = [cursor EXCEPT ![c] = r.cursor]
    /\ open_failures' = IF r.ret THEN open_failures ELSE open_failures + 1

Open(f, c, offset, extra) ==
    /\ mutex = 0
    /\ OpenCall(f, c, offset, extra)
    /\ \E ch \in OpenChoices(f, cursor[c], offset, extra) :
         OpenReturn(c, OpenResult(f, c, offset, extra, ch))
    /\ UNCHANGED file_limit
    /\ UNCHANGED <<cacheVars, midxVars, rtVars, szVars>>

\* git_mwindow_close: the decrement of a freed window is a lost write.
Close(c) ==
    /\ mutex = 0
    /\ cursor[c] # 0
    /\ win' = IF win[cursor[c]].live
              THEN [win EXCEPT ![cursor[c]].inuse_cnt = @ - 1]
              ELSE win
    /\ cursor' = [cursor EXCEPT ![c] = 0]
    /\ last_freed' = {}
    /\ UNCHANGED <<mwf, windowfiles, ctl, file_limit, open_failures>>
    /\ UNCHANGED <<cacheVars, midxVars, rtVars, szVars>>

\* while (file_limit <= windowfiles.length && close_lru_file() == 0), line 469.
RECURSIVE EvictFiles(_)
RECURSIVE EvictFilesNext(_, _)
EvictFilesNext(m, r) == IF r.ret = 0 THEN EvictFiles(r.m) ELSE m

EvictFiles(m) ==
    IF file_limit <= Len(m.windowfiles)
    THEN EvictFilesNext(m, git_mwindow_close_lru_file(m))
    ELSE m

\* Lines 473-476: the file is appended unless git_vector_insert fails.
RegisterInsert(m1, f, inserted) ==
    IF inserted
    THEN [ret |-> 0, m |-> [m1 EXCEPT !.windowfiles = Append(@, f)]]
    ELSE [ret |-> -1, m |-> m1]

\* git_mwindow_file_register; inserted says whether git_vector_insert
\* succeeds.
git_mwindow_file_register(m, f, inserted) ==
    RegisterInsert(IF file_limit # 0 THEN EvictFiles(m) ELSE m, f, inserted)

\* The caller opens the descriptor of the file before the call and closes
\* it again when the call fails.
Register(f) ==
    /\ mutex = 0
    /\ \A i \in 1..Len(windowfiles) : windowfiles[i] # f
    /\ \E inserted \in BOOLEAN :
         Commit(git_mwindow_file_register(
                    IF inserted THEN [Mw EXCEPT !.mwf[f].fd = 1] ELSE Mw,
                    f, inserted).m)
    /\ UNCHANGED <<cursor, file_limit, open_failures>>
    /\ UNCHANGED <<cacheVars, midxVars, rtVars, szVars>>

\* A deregister that also frees the windows of the file.
DeregisterAndFree(m, f) == git_mwindow_free_all_locked(m, f).m

\* git_mwindow_file_deregister: the file leaves the vector.
git_mwindow_file_deregister(m, f) ==
    [m EXCEPT !.windowfiles = VectorRemove(@, f)]

Deregister(f) ==
    /\ mutex = 0
    /\ \E i \in 1..Len(windowfiles) : windowfiles[i] = f
    /\ Commit(git_mwindow_file_deregister(Mw, f))
    /\ UNCHANGED <<cursor, file_limit, open_failures>>
    /\ UNCHANGED <<cacheVars, midxVars, rtVars, szVars>>

\* git_mwindow_free_all.
FreeAll(f) ==
    /\ mutex = 0
    /\ Commit(git_mwindow_free_all_locked(Mw, f).m)
    /\ UNCHANGED <<cursor, file_limit, open_failures>>
    /\ UNCHANGED <<cacheVars, midxVars, rtVars, szVars>>

\* git_mwindow__file_limit is set (git_libgit2_opts) while no file is
\* registered.
SetFileLimit(limit) ==
    /\ mutex = 0
    /\ windowfiles = <<>>
    /\ ctl.used_ctr = 0
    /\ limit # file_limit
    /\ file_limit' = limit
    /\ UNCHANGED <<windowfiles, mwf, win, ctl, cursor, last_freed, open_failures>>
    /\ UNCHANGED <<cacheVars, midxVars, rtVars, szVars>>

NextMwc ==
    \/ \E f \in Files, c \in Cursors, offset \in 0..(MaxFileSize - 1),
          extra \in 0..MaxExtra : Open(f, c, offset, extra)
    \/ \E c \in Cursors : Close(c)
    \/ \E f \in Files : Register(f)
    \/ \E f \in Files : Deregister(f)
    \/ \E f \in Files : FreeAll(f)
    \/ \E limit \in {0, FileLimit} : SetFileLimit(limit)

(***************************************************************************)
(* The multi-pack index                                                    *)
(*                                                                         *)
(* A file is the sequence of its bytes; a pointer into it is an offset     *)
(* from its start.  A 64-bit offset is the record of its bits above bit 30 *)
(* (h) and its low 31 bits (l).  Strings are sequences of character codes. *)
(***************************************************************************)
DotPack == <<46, 112, 97, 99, 107>>

DotIdx == <<46, 105, 100, 120>>

\* w->pack_dir, "d".
PackDir == <<100>>

\* An object id with first bytes b1 and b2 and last byte b20.
Oid(b1, b2, b20) == <<b1, b2>> \o [i \in 1..(GIT_OID_RAWSZ - 3) |-> 0] \o <<b20>>

ZeroOid == [i \in 1..GIT_OID_RAWSZ |-> 0]

\* The packs the writer is given: the name of each below the pack
\* directory ("a.pack", "b.pack", "a.k.pack", "c.pack") and the entries of
\* its index in the order of its index: an object in two packs, hashes that
\* share a prefix, offsets on both sides of 2^31, a pack with no object.
\* The last two are pack files whose names are not a stem and ".pack": "d"
\* and ".pack".
Pool ==
    << [name |-> <<97>> \o DotPack,
        entries |-> << [sha1 |-> Oid(0, 16, 1), offset |-> [h |-> 0, l |-> 12]],
                       [sha1 |-> Oid(171, 205, 1), offset |-> [h |-> 1, l |-> 5]] >>],
       [name |-> <<98>> \o DotPack,
        entries |-> << [sha1 |-> Oid(171, 205, 1), offset |-> [h |-> 0, l |-> 40]],
                       [sha1 |-> Oid(171, 205, 2),
                        offset |-> [h |-> 0, l |-> 2147483647]] >>],
       [name |-> <<97, 46, 107>> \o DotPack,
        entries |-> << [sha1 |-> Oid(171, 16, 0), offset |-> [h |-> 2, l |-> 0]],
                       [sha1 |-> Oid(255, 0, 0), offset |-> [h |-> 0, l |-> 9]] >>],
       [name |-> <<99>> \o DotPack,
        entries |-> << >>],
       [name |-> <<100>>,
        entries |-> << [sha1 |-> Oid(171, 205, 3), offset |-> [h |-> 0, l |-> 7]] >>],
       [name |-> DotPack,
        entries |-> << [sha1 |-> Oid(0, 16, 1), offset |-> [h |-> 0, l |-> 3]] >>] >>

AnyPackIds == 1..Len(Pool)

\* p->pack_name: the path of the pack file.
PackName(p) == PackDir \o <<47>> \o Pool[p].name

\* htonl of a number below 2^31: its four bytes.
Htonl(n) == <<n \div 16777216, (n \div 65536) % 256, (n \div 256) % 256, n % 256>>

\* ntohl of the word at offset p of data.
Ntohl(data, p) ==
    ((data[p + 1] * 256 + data[p + 2]) * 256 + data[p + 3]) * 256 + data[p + 4]

\* strcmp.
RECURSIVE Strcmp(_, _)
Strcmp(a, b) ==
    IF a = <<>> /\ b = <<>> THEN 0
    ELSE IF a = <<>> THEN -1
    ELSE IF b = <<>> THEN 1
    ELSE IF Head(a) < Head(b) THEN -1
    ELSE IF Head(a) > Head(b) THEN 1
    ELSE Strcmp(Tail(a), Tail(b))

\* git_oid_cmp: memcmp of the 20 bytes.
git_oid_cmp(a, b) == Strcmp(a, b)

\* git__suffixcmp(str, suffix) = 0.
HasSuffix(str, suffix) ==
    /\ Len(str) >= Len(suffix)
    /\ SubSeq(str, Len(str) - Len(suffix) + 1, Len(str)) = suffix

\* The name is a stem and ".pack" (line 683).
IsPackName(relative_index) ==
    /\ Len(relative_index) > Len(DotPack)
    /\ HasSuffix(relative_index, DotPack)

\* The packs of the pool with such a name.
PackIds == {p \in AnyPackIds : IsPackName(Pool[p].name)}

\* git_oid_ncmp(a, b, len) = 0: the first len hex digits are equal.
OidNcmpEqual(a, b, len) ==
    /\ \A i \in 1..(len \div 2) : a[i] = b[i]
    /\ len % 2 = 1 => a[len \div 2 + 1] \div 16 = b[len \div 2 + 1] \div 16

\* git_hash_buf of the first n bytes of data: 20 bytes that depend on every
\* byte and on its place.
RECURSIVE HashSum(_, _, _)
HashSum(data, lo, hi) ==
    IF lo > hi THEN 0
    ELSE IF lo = hi THEN lo * (data[lo] + 1)
    ELSE HashSum(data, lo, (lo + hi) \div 2) + HashSum(data, (lo + hi) \div 2 + 1, hi)

HashBytes(s) == <<s \div 256, s % 256>> \o [i \in 1..(GIT_OID_RAWSZ - 2) |-> 0]

git_hash_buf(data, n) == HashBytes(HashSum(data, 1, n) % HashModulus)

(***************************************************************************)
(* The writer                                                              *)
(***************************************************************************)
\* packfile__cmp.
packfile__cmp(a, b) == Strcmp(PackName(a), PackName(b))

\* One insertion of a sort that keeps equal elements in their order.
RECURSIVE InsertPack(_, _)
InsertPack(v, p) ==
    IF v = <<>> THEN <<p>>
    ELSE IF packfile__cmp(v[Len(v)], p) <= 0 THEN Append(v, p)
    ELSE Append(InsertPack(SubSeq(v, 1, Len(v) - 1), p), v[Len(v)])

\* A vector left as it is.
NoSort(v) == v

\* git_vector_sort(&w->packs).
RECURSIVE SortPacks(_)
SortPacks(v) ==
    IF v = <<>> THEN <<>>
    ELSE InsertPack(SortPacks(SubSeq(v, 1, Len(v) - 1)), v[Len(v)])

\* object_entry__cmp.
object_entry__cmp(a, b) == git_oid_cmp(a.sha1, b.sha1)

RECURSIVE InsertEntry(_, _)
InsertEntry(v, e) ==
    IF v = <<>> THEN <<e>>
    ELSE IF object_entry__cmp(v[Len(v)], e) <= 0 THEN Append(v, e)
    ELSE Append(InsertEntry(SubSeq(v, 1, Len(v) - 1), e), v[Len(v)])

\* git_vector_sort(&object_entries).
RECURSIVE SortEntries(_)
SortEntries(v) ==
    IF v = <<>> THEN <<>>
    ELSE InsertEntry(SortEntries(SubSeq(v, 1, Len(v) - 1)), v[Len(v)])

\* git_vector_uniq(&object_entries, NULL): of equal neighbours the last
\* is kept.
RECURSIVE VectorUniq(_)
VectorUniq(v) ==
    IF Len(v) <= 1 THEN v
    ELSE IF object_entry__cmp(v[1], v[2]) = 0 THEN VectorUniq(Tail(v))
    ELSE <<v[1]>> \o VectorUniq(Tail(v))

\* git_path_make_relative(path, parent): the path below parent.
git_path_make_relative(path, parent) ==
    IF /\ Len(path) > Len(parent) + 1
       /\ SubSeq(path, 1, Len(parent)) = parent
       /\ path[Len(parent) + 1] = 47
    THEN SubSeq(path, Len(parent) + 2, Len(path))
    ELSE path

\* git_pack_foreach_entry_offset with object_entry__cb: the entries of
\* pack p, tagged with pack_index.
PackEntries(p, pack_index) ==
    [k \in 1..Len(Pool[p].entries) |->
        [sha1 |-> Pool[p].entries[k].sha1,
         offset |-> Pool[p].entries[k].offset,
         pack_index |-> pack_index]]

\* Lines 686-690: the name with ".idx" for ".pack", and a NUL.
IdxName(relative_index) ==
    SubSeq(relative_index, 1, Len(relative_index) - Len(DotPack)) \o DotIdx

\* The loop of lines 665-696 from pack i on (i counts from 1): ok is FALSE
\* when line 684 is reached.
RECURSIVE DumpPacks(_, _, _, _)
RECURSIVE DumpPack(_, _, _, _, _)
DumpPack(vec, i, packfile_names, entries, relative_index) ==
    IF \/ Len(relative_index) <= Len(DotPack)
       \/ ~HasSuffix(relative_index, DotPack)
    THEN [ok |-> FALSE, packfile_names |-> packfile_names, entries |-> entries]
    ELSE DumpPacks(vec, i + 1,
                   packfile_names \o IdxName(relative_index) \o <<0>>,
                   entries \o PackEntries(vec[i], i - 1))

DumpPacks(vec, i, packfile_names, entries) ==
    IF i > Len(vec)
    THEN [ok |-> TRUE, packfile_names |-> packfile_names, entries |-> entries]
    ELSE DumpPack(vec, i, packfile_names, entries,
                  git_path_make_relative(PackName(vec[i]), PackDir))

\* Lines 709-710.
RECURSIVE PadNames(_)
PadNames(packfile_names) ==
    IF Len(packfile_names) % 4 = 0 THEN packfile_names
    ELSE PadNames(Append(packfile_names, 0))

\* The while loop of lines 715-717.
RECURSIVE FanoutAdvance(_, _, _)
FanoutAdvance(entries, oid_fanout_count, i) ==
    IF /\ oid_fanout_count < Len(entries)
       /\ entries[oid_fanout_count + 1].sha1[1] <= i
    THEN FanoutAdvance(entries, oid_fanout_count + 1, i)
    ELSE oid_fanout_count

\* The for loop of lines 714-719 for i from lo to hi - 1, entered with
\* oid_fanout_count: the counts it stores.  A range of more than one i is
\* run as its first half and then, from where that leaves
\* oid_fanout_count, its second half.
RECURSIVE FanoutCounts(_, _, _, _)
FanoutSecondHalf(entries, lo, hi, first) ==
    first \o FanoutCounts(entries, (lo + hi) \div 2, hi, first[Len(first)])

FanoutCounts(entries, lo, hi, oid_fanout_count) ==
    IF hi = lo + 1 THEN <<FanoutAdvance(entries, oid_fanout_count, lo)>>
    ELSE FanoutSecondHalf(entries, lo, hi,
             FanoutCounts(entries, lo, (lo + hi) \div 2, oid_fanout_count))

\* The bytes of a table of 32-bit words.
WordBytes(words) ==
    [k \in 1..(4 * Len(words)) |-> Htonl(words[(k + 3) \div 4])[((k - 1) % 4) + 1]]

\* Lines 722-726.
RECURSIVE OidLookupBytes(_)
OidLookupBytes(entries) ==
    IF entries = <<>> THEN <<>>
    ELSE OidLookupBytes(SubSeq(entries, 1, Len(entries) - 1))
             \o entries[Len(entries)].sha1

\* write_offset: the high and the low 32 bits, each in network order.
write_offset(offset) ==
    Htonl(offset.h \div 2) \o
    <<(offset.h % 2) * 128 + offset.l \div 16777216,
      (offset.l \div 65536) % 256, (offset.l \div 256) % 256, offset.l % 256>>

\* htonl(count): the word without the marker of a large offset.
PlainWord(count) ==
    <<count \div 16777216, (count \div 65536) % 256, (count \div 256) % 256,
      count % 256>>

\* htonl(0x80000000u | count).
LargeWord(count) ==
    <<128 + count \div 16777216, (count \div 65536) % 256, (count \div 256) % 256,
      count % 256>>

\* Lines 729-746 from entry i on: the two offset tables.
RECURSIVE ObjectOffsets(_, _, _, _, _)
ObjectOffsets(entries, i, object_large_offsets_count, object_offsets, object_large_offsets) ==
    IF i > Len(entries)
    THEN [object_offsets |-> object_offsets,
          object_large_offsets |-> object_large_offsets]
    ELSE IF entries[i].offset.h > 0
    THEN ObjectOffsets(entries, i + 1, object_large_offsets_count + 1,
             object_offsets \o Htonl(entries[i].pack_index)
                 \o LargeWord(object_large_offsets_count),
             object_large_offsets \o write_offset(entries[i].offset))
    ELSE ObjectOffsets(entries, i + 1, object_large_offsets_count,
             object_offsets \o Htonl(entries[i].pack_index)
                 \o Htonl(entries[i].offset.l),
             object_large_offsets)

\* write_chunk_header.
write_chunk_header(chunk_id, offset) ==
    Htonl(chunk_id) \o write_offset([h |-> 0, l |-> offset])

\* Lines 749-753: the header.
HeaderBytes(chunks, packfiles) ==
    Htonl(MULTIPACK_INDEX_SIGNATURE) \o
    <<MULTIPACK_INDEX_VERSION, MULTIPACK_INDEX_OBJECT_ID_VERSION, chunks, 0>> \o
    Htonl(packfiles)

\* Lines 756-781: the chunk headers, the first chunk at offset.
ChunkHeaders(c, offset) ==
    write_chunk_header(MULTIPACK_INDEX_PACKFILE_NAMES_ID, offset) \o
    write_chunk_header(MULTIPACK_INDEX_OID_FANOUT_ID,
        offset + Len(c.packfile_names)) \o
    write_chunk_header(MULTIPACK_INDEX_OID_LOOKUP_ID,
        offset + Len(c.packfile_names) + Len(c.oid_fanout)) \o
    write_chunk_header(MULTIPACK_INDEX_OBJECT_OFFSETS_ID,
        offset + Len(c.packfile_names) + Len(c.oid_fanout) + Len(c.oid_lookup)) \o
    (IF Len(c.object_large_offsets) > 0
     THEN write_chunk_header(MULTIPACK_INDEX_OBJECT_LARGE_OFFSETS_ID,
              offset + Len(c.packfile_names) + Len(c.oid_fanout)
                  + Len(c.oid_lookup) + Len(c.object_offsets))
     ELSE <<>>) \o
    write_chunk_header(0,
        offset + Len(c.packfile_names) + Len(c.oid_fanout) + Len(c.oid_lookup)
            + Len(c.object_offsets) + Len(c.object_large_offsets))

\* Lines 800-806: the trailer.
WithTrailer(body) == body \o git_hash_buf(body, Len(body))

ChunkCount(c) == IF Len(c.object_large_offsets) > 0 THEN 5 ELSE 4

\* Lines 748-806: the image of the chunks c.
Assemble(c) ==
    WithTrailer(
        HeaderBytes(ChunkCount(c), c.packfiles) \o
        ChunkHeaders(c, HeaderSize + (ChunkCount(c) + 1) * ChunkHeaderSize) \o
        c.packfile_names \o c.oid_fanout \o c.oid_lookup \o c.object_offsets \o
        c.object_large_offsets)

\* Lines 698-746: the chunks of the sorted packs and their entries.
ChunksOf(vec, packfile_names, entries, offsets) ==
    [packfiles |-> Len(vec),
     packfile_names |-> PadNames(packfile_names),
     oid_fanout |-> WordBytes(FanoutCounts(entries, 0, FanoutEntries, 0)),
     oid_lookup |-> OidLookupBytes(entries),
     object_offsets |-> offsets.object_offsets,
     object_large_offsets |-> offsets.object_large_offsets]

ChunksOfEntries(vec, packfile_names, entries) ==
    ChunksOf(vec, packfile_names, entries,
             ObjectOffsets(entries, 1, 0, <<>>, <<>>))

\* The chunks the writer builds from the sorted vector vec; ok is FALSE
\* when the loop over the packs was left at line 684.
DumpChunksOf(vec, d) ==
    [ok |-> d.ok,
     c |-> ChunksOfEntries(vec, d.packfile_names,
                           VectorUniq(SortEntries(d.entries)))]

DumpChunks(vec) == DumpChunksOf(vec, DumpPacks(vec, 1, <<>>, <<>>))

\* git_multipack_index_writer_dump after the sort: line 684 leaves the
\* function with error 0 and nothing in the buffer.
DumpSorted(vec, dc) ==
    [error |-> 0,
     midx |-> IF dc.ok THEN Assemble(dc.c) ELSE <<>>,
     packs |-> vec]

DumpOf(vec) == DumpSorted(vec, DumpChunks(vec))

\* git_multipack_index_writer_dump of a writer whose vector is vec: the
\* error, the buffer, and the vector, which the call sorts.
git_multipack_index_writer_dump(vec) == DumpOf(SortPacks(vec))

(***************************************************************************)
(* The parser                                                              *)
(***************************************************************************)
\* git__calloc(1, sizeof(git_multipack_index_file)).
NewIdx ==
    [packfile_names |-> <<>>, oid_fanout |-> 0, num_objects |-> 0,
     oid_lookup |-> 0, object_offsets |-> 0, object_large_offsets |-> 0,
     num_object_large_offsets |-> 0, checksum |-> ZeroOid]

\* multipack_error: -1, with the message set.
\* A number of up to 64 bits in three parts: up * 2^32 + hi * 2^16 + lo.
Wide(n) == [up |-> 0, hi |-> n \div 65536, lo |-> n % 65536]

WideNormal(up, hi, lo) ==
    [up |-> up + (hi + lo \div 65536) \div 65536,
     hi |-> (hi + lo \div 65536) % 65536,
     lo |-> lo % 65536]

\* x * k for a small k, x + y, and x - y for y <= x.
WideTimes(x, k) == WideNormal(x.up * k, x.hi * k, x.lo * k)

WidePlus(x, y) == WideNormal(x.up + y.up, x.hi + y.hi, x.lo + y.lo)

WideMinus(x, y) ==
    WideNormal(x.up - y.up - 1, x.hi - y.hi + 65535, x.lo - y.lo + 65536)

WideLeq(x, y) ==
    \/ x.up < y.up
    \/ x.up = y.up /\ x.hi < y.hi
    \/ x.up = y.up /\ x.hi = y.hi /\ x.lo <= y.lo

\* The conversion to uint32_t: the low 32 bits.
Uint32(x) == [x EXCEPT !.up = 0]

\* idx->num_objects * 20 and idx->num_objects * 8 (lines 120 and 143): the
\* product of a uint32_t and an int is a uint32_t.
Times32(num_objects, k) == Uint32(WideTimes(num_objects, k))

multipack_error(message, idx) == [error |-> -1, message |-> message, idx |-> idx]

ParseOk(idx) == [error |-> 0, message |-> "", idx |-> idx]

\* p_strnlen(data + p, max), counted from n.
RECURSIVE Strnlen(_, _, _, _)
Strnlen(data, p, n, max) ==
    IF n < max /\ data[p + n + 1] # 0 THEN Strnlen(data, p, n + 1, max) ELSE n

\* The loop of multipack_index_parse_packfile_names.
RECURSIVE PackfileNames(_, _, _, _, _, _)
RECURSIVE PackfileNameCheck(_, _, _, _, _, _, _, _)
RECURSIVE PackfileName(_, _, _, _, _, _, _)
PackfileNameCheck(idx, data, packfiles, i, packfile_name, chunk_size, len, name) ==
    IF i > 0 /\ Strcmp(idx.packfile_names[i], name) >= 0
    THEN multipack_error("packfile names are not sorted", idx)
    ELSE IF Len(name) <= Len(DotIdx) \/ ~HasSuffix(name, DotIdx)
    THEN multipack_error("non-.idx packfile name", idx)
    ELSE IF \E k \in 1..Len(name) : name[k] = 47 \/ name[k] = 92
    THEN multipack_error("non-local packfile", idx)
    ELSE PackfileNames(idx, data, packfiles, i + 1, packfile_name + len + 1,
                       chunk_size - (len + 1))

PackfileName(idx, data, packfiles, i, packfile_name, chunk_size, len) ==
    IF len = 0 THEN multipack_error("empty packfile name", idx)
    ELSE IF len + 1 > chunk_size
    THEN multipack_error("unterminated packfile name", idx)
    ELSE PackfileNameCheck(
             [idx EXCEPT !.packfile_names =
                 Append(@, SubSeq(data, packfile_name + 1, packfile_name + len))],
             data, packfiles, i, packfile_name, chunk_size, len,
             SubSeq(data, packfile_name + 1, packfile_name + len))

PackfileNames(idx, data, packfiles, i, packfile_name, chunk_size) ==
    IF i >= packfiles THEN ParseOk(idx)
    ELSE PackfileName(idx, data, packfiles, i, packfile_name, chunk_size,
                      Strnlen(data, packfile_name, 0, chunk_size))

multipack_index_parse_packfile_names(idx, data, packfiles, chunk) ==
    IF chunk.offset = 0
    THEN multipack_error("missing Packfile Names chunk", idx)
    ELSE IF chunk.length = 0
    THEN multipack_error("empty Packfile Names chunk", idx)
    ELSE PackfileNames(idx, data, packfiles, 0, chunk.offset, chunk.length)

\* The loop of multipack_index_parse_oid_fanout for i from lo to hi - 1,
\* entered with nr: -1 when an entry is below the one before it, else the
\* last entry.  A range of more than one i is run as its first half and
\* then, from the nr that leaves, its second half.
RECURSIVE FanoutScan(_, _, _, _, _)
FanoutScanEntry(nr, n) == IF n < nr THEN -1 ELSE n

FanoutScanSecondHalf(data, oid_fanout, lo, hi, nr) ==
    IF nr < 0 THEN -1 ELSE FanoutScan(data, oid_fanout, (lo + hi) \div 2, hi, nr)

FanoutScan(data, oid_fanout, lo, hi, nr) ==
    IF hi = lo + 1 THEN FanoutScanEntry(nr, Ntohl(data, oid_fanout + 4 * lo))
    ELSE FanoutScanSecondHalf(data, oid_fanout, lo, hi,
             FanoutScan(data, oid_fanout, lo, (lo + hi) \div 2, nr))

FanoutScanned(idx, chunk_oid_fanout, nr) ==
    IF nr < 0
    THEN multipack_error("index is non-monotonic",
                         [idx EXCEPT !.oid_fanout = chunk_oid_fanout.offset])
    ELSE ParseOk([idx EXCEPT !.oid_fanout = chunk_oid_fanout.offset,
                             !.num_objects = nr])

multipack_index_parse_oid_fanout(idx, data, chunk_oid_fanout) ==
    IF chunk_oid_fanout.offset = 0
    THEN multipack_error("missing OID Fanout chunk", idx)
    ELSE IF chunk_oid_fanout.length = 0
    THEN multipack_error("empty OID Fanout chunk", idx)
    ELSE IF chunk_oid_fanout.length # FanoutEntries * 4
    THEN multipack_error("OID Fanout chunk has wrong length", idx)
    ELSE FanoutScanned(idx, chunk_oid_fanout,
                       FanoutScan(data, chunk_oid_fanout.offset, 0, FanoutEntries, 0))

\* The object id at offset p of data.
OidAt(data, p) == SubSeq(data, p + 1, p + GIT_OID_RAWSZ)

\* The loop of multipack_index_parse_oid_lookup from entry i on: TRUE when
\* every entry is above the one before it.
RECURSIVE OidLookupScan(_, _, _, _, _)
OidLookupScan(data, oid_lookup, num_objects, i, prev_oid) ==
    IF i >= num_objects THEN TRUE
    ELSE IF git_oid_cmp(prev_oid, OidAt(data, oid_lookup + GIT_OID_RAWSZ * i)) >= 0
    THEN FALSE
    ELSE OidLookupScan(data, oid_lookup, num_objects, i + 1,
                       OidAt(data, oid_lookup + GIT_OID_RAWSZ * i))

multipack_index_parse_oid_lookup(idx, data, chunk_oid_lookup) ==
    IF chunk_oid_lookup.offset = 0
    THEN multipack_error("missing OID Lookup chunk", idx)
    ELSE IF chunk_oid_lookup.length = 0
    THEN multipack_error("empty OID Lookup chunk", idx)
    ELSE IF Wide(chunk_oid_lookup.length) # Times32(Wide(idx.num_objects), 20)
    THEN multipack_error("OID Lookup chunk has wrong length", idx)
    ELSE IF ~OidLookupScan(data, chunk_oid_lookup.offset, idx.num_objects, 0,
                           ZeroOid)
    THEN multipack_error("OID Lookup index is non-monotonic",
                         [idx EXCEPT !.oid_lookup = chunk_oid_lookup.offset])
    ELSE ParseOk([idx EXCEPT !.oid_lookup = chunk_oid_lookup.offset])

multipack_index_parse_object_offsets(idx, data, chunk_object_offsets) ==
    IF chunk_object_offsets.offset = 0
    THEN multipack_error("missing Object Offsets chunk", idx)
    ELSE IF chunk_object_offsets.length = 0
    THEN multipack_error("empty Object Offsets chunk", idx)
    ELSE IF Wide(chunk_object_offsets.length) # Times32(Wide(idx.num_objects), 8)
    THEN multipack_error("Object Offsets chunk has wrong length", idx)
    ELSE ParseOk([idx EXCEPT !.object_offsets = chunk_object_offsets.offset])

multipack_index_parse_object_large_offsets(idx, data, chunk_object_large_offsets) ==
    IF chunk_object_large_offsets.length = 0 THEN ParseOk(idx)
    ELSE IF chunk_object_large_offsets.length % 8 # 0
    THEN multipack_error("malformed Object Large Offsets chunk", idx)
    ELSE ParseOk([idx EXCEPT
             !.object_large_offsets = chunk_object_large_offsets.offset,
             !.num_object_large_offsets = chunk_object_large_offsets.length \div 8])

\* struct git_multipack_index_chunk, zeroed.
NoChunk == [offset |-> 0, length |-> 0]

ChunkNames ==
    {"packfile_names", "oid_fanout", "oid_lookup", "object_offsets",
     "object_large_offsets"}

\* The switch of lines 230-258 on the four bytes of the chunk id.
ChunkOfId(id) ==
    IF id = Htonl(MULTIPACK_INDEX_PACKFILE_NAMES_ID) THEN "packfile_names"
    ELSE IF id = Htonl(MULTIPACK_INDEX_OID_FANOUT_ID) THEN "oid_fanout"
    ELSE IF id = Htonl(MULTIPACK_INDEX_OID_LOOKUP_ID) THEN "oid_lookup"
    ELSE IF id = Htonl(MULTIPACK_INDEX_OBJECT_OFFSETS_ID) THEN "object_offsets"
    ELSE IF id = Htonl(MULTIPACK_INDEX_OBJECT_LARGE_OFFSETS_ID)
    THEN "object_large_offsets"
    ELSE "unrecognized"

\* Lines 220-221: the 64-bit offset of the chunk header at chunk_hdr.  An
\* offset of 2^31 or more is beyond every file here: it reads as the
\* offset of the trailer.
ChunkOffset(data, chunk_hdr, trailer_offset) ==
    IF \/ \E k \in 5..8 : data[chunk_hdr + k] # 0
       \/ data[chunk_hdr + 9] >= 128
    THEN trailer_offset
    ELSE Ntohl(data, chunk_hdr + 8)

\* Lines 226-227.
SetLength(tab, last_chunk, length) ==
    IF last_chunk = "none" THEN tab
    ELSE [tab EXCEPT ![last_chunk].length = length]

\* The five parsers of lines 262-277, each run when the ones before it
\* returned 0.
ParseLargeOffsets(r, data, tab) ==
    IF r.error < 0 THEN r
    ELSE multipack_index_parse_object_large_offsets(r.idx, data,
             tab["object_large_offsets"])

ParseOffsets(r, data, tab) ==
    IF r.error < 0 THEN r
    ELSE multipack_index_parse_object_offsets(r.idx, data, tab["object_offsets"])

ParseLookup(r, data, tab) ==
    IF r.error < 0 THEN r
    ELSE multipack_index_parse_oid_lookup(r.idx, data, tab["oid_lookup"])

ParseFanout(r, data, tab) ==
    IF r.error < 0 THEN r
    ELSE multipack_index_parse_oid_fanout(r.idx, data, tab["oid_fanout"])

ParseTables(idx, data, tab) ==
    ParseLargeOffsets(
        ParseOffsets(
            ParseLookup(
                ParseFanout(
                    multipack_index_parse_packfile_names(idx, data, Ntohl(data, 8),
                        tab["packfile_names"]),
                    data, tab),
                data, tab),
            data, tab),
        data, tab)

\* The loop of lines 219-259 from chunk i on, and what follows it.
RECURSIVE ParseChunks(_, _, _, _, _, _, _, _, _)
RECURSIVE ParseChunk(_, _, _, _, _, _, _, _, _, _)
ParseChunk(idx, data, chunks, i, chunk_hdr, last_chunk_offset, trailer_offset, last_chunk, tab, chunk_offset) ==
    IF chunk_offset < last_chunk_offset
    THEN multipack_error("chunks are non-monotonic", idx)
    ELSE IF chunk_offset >= trailer_offset
    THEN multipack_error("chunks extend beyond the trailer", idx)
    ELSE IF ChunkOfId(SubSeq(data, chunk_hdr + 1, chunk_hdr + 4)) = "unrecognized"
    THEN multipack_error("unrecognized chunk ID", idx)
    ELSE ParseChunks(idx, data, chunks, i + 1, chunk_hdr + ChunkHeaderSize,
             chunk_offset, trailer_offset,
             ChunkOfId(SubSeq(data, chunk_hdr + 1, chunk_hdr + 4)),
             [SetLength(tab, last_chunk, chunk_offset - last_chunk_offset)
                 EXCEPT ![ChunkOfId(SubSeq(data, chunk_hdr + 1, chunk_hdr + 4))].offset
                            = chunk_offset])

ParseChunks(idx, data, chunks, i, chunk_hdr, last_chunk_offset, trailer_offset, last_chunk, tab) ==
    IF i >= chunks
    THEN ParseTables(idx, data,
             SetLength(tab, last_chunk, trailer_offset - last_chunk_offset))
    ELSE ParseChunk(idx, data, chunks, i, chunk_hdr, last_chunk_offset,
             trailer_offset, last_chunk, tab,
             ChunkOffset(data, chunk_hdr, trailer_offset))

\* Lines 204-215.
\* A parser that trusts the trailer.
ChecksumTrusted(data, trailer_offset) == FALSE

\* Lines 210-215: the digest of the bytes in front of the trailer is not the
\* trailer.
ChecksumDiffers(data, trailer_offset) ==
    git_hash_buf(data, trailer_offset) # OidAt(data, trailer_offset)

ParseTrailer(idx, data, last_chunk_offset, trailer_offset) ==
    IF trailer_offset < last_chunk_offset
    THEN multipack_error("wrong index size", idx)
    ELSE IF ChecksumDiffers(data, trailer_offset)
    THEN multipack_error("index signature mismatch",
                         [idx EXCEPT !.checksum = OidAt(data, trailer_offset)])
    ELSE ParseChunks([idx EXCEPT !.checksum = OidAt(data, trailer_offset)],
             data, data[7], 0, HeaderSize, last_chunk_offset, trailer_offset,
             "none", [c \in ChunkNames |-> NoChunk])

\* git_multipack_index_parse(idx, data, size): the error, its message and
\* idx as the call leaves it.
git_multipack_index_parse(idx, data, size) ==
    IF size < HeaderSize + 20
    THEN multipack_error("multi-pack index is too short", idx)
    ELSE IF \/ SubSeq(data, 1, 4) # Htonl(MULTIPACK_INDEX_SIGNATURE)
            \/ data[5] # MULTIPACK_INDEX_VERSION
            \/ data[6] # MULTIPACK_INDEX_OBJECT_ID_VERSION
    THEN multipack_error("unsupported multi-pack index version", idx)
    ELSE IF data[7] = 0
    THEN multipack_error("no chunks in multi-pack index", idx)
    ELSE ParseTrailer(idx, data, HeaderSize + (1 + data[7]) * ChunkHeaderSize,
                      size - 20)

(***************************************************************************)
(* Lookup                                                                  *)
(***************************************************************************)
\* git_pack__lookup_sha1(oid_lookup, 20, lo, hi, oid): binary search of the
\* table at offset oid_lookup of data.
RECURSIVE git_pack__lookup_sha1(_, _, _, _, _)
RECURSIVE LookupStep(_, _, _, _, _, _, _)
LookupStep(data, oid_lookup, lo, hi, oid, mi, cmp) ==
    IF cmp = 0 THEN mi
    ELSE IF cmp > 0 THEN git_pack__lookup_sha1(data, oid_lookup, lo, mi, oid)
    ELSE git_pack__lookup_sha1(data, oid_lookup, mi + 1, hi, oid)

git_pack__lookup_sha1(data, oid_lookup, lo, hi, oid) ==
    IF lo < hi
    THEN LookupStep(data, oid_lookup, lo, hi, oid, (lo + hi) \div 2,
             git_oid_cmp(OidAt(data, oid_lookup + ((lo + hi) \div 2) * GIT_OID_RAWSZ),
                         oid))
    ELSE -lo - 1

NoEntry == [pack_index |-> 0, offset |-> [h |-> 0, l |-> 0], sha1 |-> ZeroOid]

\* The 64-bit offset at offset p of data (lines 435-436).
LargeOffsetAt(data, p) ==
    [h |-> Ntohl(data, p) * 2 + data[p + 5] \div 128,
     l |-> (((data[p + 5] % 128) * 256 + data[p + 6]) * 256 + data[p + 7]) * 256
               + data[p + 8]]

\* The low 31 bits of the word at offset p of data.
Low31(data, p) ==
    (((data[p + 1] % 128) * 256 + data[p + 2]) * 256 + data[p + 3]) * 256
        + data[p + 4]

\* Lines 438-444.
FindEntry(idx, data, pos, offset) ==
    IF Ntohl(data, idx.object_offsets + pos * 8) >= Len(idx.packfile_names)
    THEN [ret |-> "ERROR", e |-> NoEntry]
    ELSE [ret |-> "OK",
          e |-> [pack_index |-> Ntohl(data, idx.object_offsets + pos * 8),
                 offset |-> offset,
                 sha1 |-> OidAt(data, idx.oid_lookup + pos * GIT_OID_RAWSZ)]]

\* Lines 418-437.
FindDecode(idx, data, pos, found) ==
    IF found = 0 THEN [ret |-> "GIT_ENOTFOUND", e |-> NoEntry]
    ELSE IF found > 1 THEN [ret |-> "GIT_EAMBIGUOUS", e |-> NoEntry]
    ELSE IF data[idx.object_offsets + pos * 8 + 5] >= 128
    THEN (IF Low31(data, idx.object_offsets + pos * 8 + 4)
                 >= idx.num_object_large_offsets
          THEN [ret |-> "GIT_ENOTFOUND", e |-> NoEntry]
          ELSE FindEntry(idx, data, pos,
                   LargeOffsetAt(data, idx.object_large_offsets
                       + 8 * Low31(data, idx.object_offsets + pos * 8 + 4))))
    ELSE FindEntry(idx, data, pos,
             [h |-> 0, l |-> Low31(data, idx.object_offsets + pos * 8 + 4)])

\* Lines 409-416.
FindAmbiguous(idx, data, short_oid, len, pos, found) ==
    FindDecode(idx, data, pos,
        IF /\ found = 1
           /\ len # GIT_OID_HEXSZ
           /\ pos + 1 < idx.num_objects
           /\ OidNcmpEqual(short_oid,
                  OidAt(data, idx.oid_lookup + (pos + 1) * GIT_OID_RAWSZ), len)
        THEN 2 ELSE found)

\* Lines 393-407.
FindAt(idx, data, short_oid, len, pos) ==
    IF pos >= 0 THEN FindAmbiguous(idx, data, short_oid, len, pos, 1)
    ELSE FindAmbiguous(idx, data, short_oid, len, -1 - pos,
             IF /\ -1 - pos < idx.num_objects
                /\ OidNcmpEqual(short_oid,
                       OidAt(data, idx.oid_lookup + (-1 - pos) * GIT_OID_RAWSZ), len)
             THEN 1 ELSE 0)

\* git_multipack_index_entry_find(e, idx, short_oid, len): what it returns
\* and the entry it fills.
git_multipack_index_entry_find(idx, data, short_oid, len) ==
    FindAt(idx, data, short_oid, len,
        git_pack__lookup_sha1(data, idx.oid_lookup,
            IF short_oid[1] = 0 THEN 0
            ELSE Ntohl(data, idx.oid_fanout + 4 * (short_oid[1] - 1)),
            Ntohl(data, idx.oid_fanout + 4 * short_oid[1]),
            short_oid))

(***************************************************************************)
(* The writer, the file and the reader as a state machine                  *)
(***************************************************************************)
NoDisk == [by |-> "none", data |-> <<>>]

NotOpened == [done |-> FALSE, error |-> 0, message |-> "", idx |-> NewIdx]

NoLook ==
    [done |-> FALSE, short_oid |-> ZeroOid, len |-> 0, ret |-> "OK", e |-> NoEntry]

\* A file as open, fstat and read see it: st is "reg" for a regular file,
\* "dir" for one that is not regular, "nostat" for one that fstat fails on,
\* "noread" for one whose read fails and "missing" for one that open fails on.
File(st, data) == [st |-> st, data |-> data]

NoRefresh == [done |-> FALSE, file |-> File("missing", <<>>), ret |-> FALSE]

InitMidx ==
    /\ w_packs = <<>>
    /\ add_order = <<>>
    /\ dumps = <<>>
    /\ disk = NoDisk
    /\ opened = NotOpened
    /\ looked = NoLook
    /\ refresh = NoRefresh

\* git_multipack_index_writer_add of pack p, which the writer has not got.
WriterAdd(p) ==
    /\ dumps = <<>>
    /\ disk.by = "none"
    /\ Len(w_packs) < MaxPacks
    /\ \A k \in 1..Len(w_packs) : w_packs[k] # p
    /\ w_packs' = Append(w_packs, p)
    /\ add_order' = Append(add_order, p)
    /\ UNCHANGED <<dumps, disk, opened, looked, refresh>>
    /\ UNCHANGED <<cacheVars, mwVars, rtVars, szVars>>

WriterDumped(r) ==
    /\ w_packs' = r.packs
    /\ dumps' = Append(dumps, r.midx)

\* git_multipack_index_writer_dump into an empty buffer.
WriterDump ==
    /\ Len(dumps) < MaxDumps
    /\ disk.by = "none"
    /\ WriterDumped(git_multipack_index_writer_dump(w_packs))
    /\ UNCHANGED <<add_order, disk, opened, looked, refresh>>
    /\ UNCHANGED <<cacheVars, mwVars, rtVars, szVars>>

WriterCommitted(r) ==
    /\ w_packs' = r.packs
    /\ disk' = IF r.error < 0 THEN disk ELSE [by |-> "commit", data |-> r.midx]

\* git_multipack_index_writer_commit.
WriterCommit ==
    /\ disk.by = "none"
    /\ WriterCommitted(git_multipack_index_writer_dump(w_packs))
    /\ UNCHANGED <<add_order, dumps, opened, looked, refresh>>
    /\ UNCHANGED <<cacheVars, mwVars, rtVars, szVars>>

\* The ways in which a file that another program wrote differs from the
\* writer's: every fanout entry is the number of objects; the first object
\* names a pack past the last; the first object names a large offset past
\* the last.
ForgeKinds == {"fanout", "pack_index", "large_offset"}

ForgedChunks(kind, c) ==
    IF kind = "fanout"
    THEN [c EXCEPT !.oid_fanout =
             WordBytes([i \in 1..FanoutEntries |-> Len(c.oid_lookup) \div GIT_OID_RAWSZ])]
    ELSE IF kind = "pack_index"
    THEN [c EXCEPT !.object_offsets =
             Htonl(c.packfiles) \o SubSeq(@, 5, Len(@))]
    ELSE [c EXCEPT !.object_offsets =
             SubSeq(@, 1, 4) \o LargeWord(Len(c.object_large_offsets) \div 8)
                 \o SubSeq(@, 9, Len(@))]

\* The ways in which the chunk table of a file that another program wrote
\* differs from the writer's.  The file has no large offsets.
\*   "empty_loff"      an Object Large Offsets chunk of no bytes in front of
\*                     the Object Offsets chunk, at the same offset
\*   "empty_required"  the OID Fanout chunk at the offset of Packfile Names
\*   "decreasing"      the OID Lookup chunk one byte in front of OID Fanout
\*   "below_table"     the first chunk one byte inside the chunk table
\*   "beyond_trailer"  the last chunk at the offset of the trailer
\*   "unknown_id"      the id of the last chunk is no chunk id
\*   "missing"         the last chunk has the id of Object Large Offsets
TableForgeKinds ==
    {"empty_loff", "empty_required", "decreasing", "below_table",
     "beyond_trailer", "unknown_id", "missing"}

UnknownChunkId == 1347305806

\* The chunk table: ids and offsets; b is the offset behind the table and
\* l1, l2, l3, l4 are the lengths of the writer's four chunks.
ForgedTable(kind, b, l1, l2, l3, l4) ==
    IF kind = "empty_loff"
    THEN << <<MULTIPACK_INDEX_PACKFILE_NAMES_ID, b>>,
            <<MULTIPACK_INDEX_OID_FANOUT_ID, b + l1>>,
            <<MULTIPACK_INDEX_OID_LOOKUP_ID, b + l1 + l2>>,
            <<MULTIPACK_INDEX_OBJECT_LARGE_OFFSETS_ID, b + l1 + l2 + l3>>,
            <<MULTIPACK_INDEX_OBJECT_OFFSETS_ID, b + l1 + l2 + l3>>,
            <<0, b + l1 + l2 + l3 + l4>> >>
    ELSE << <<MULTIPACK_INDEX_PACKFILE_NAMES_ID,
              IF kind = "below_table" THEN b - 1 ELSE b>>,
            <<MULTIPACK_INDEX_OID_FANOUT_ID,
              IF kind = "empty_required" THEN b ELSE b + l1>>,
            <<MULTIPACK_INDEX_OID_LOOKUP_ID,
              IF kind = "decreasing" THEN b + l1 - 1 ELSE b + l1 + l2>>,
            <<IF kind = "unknown_id" THEN UnknownChunkId
              ELSE IF kind = "missing" THEN MULTIPACK_INDEX_OBJECT_LARGE_OFFSETS_ID
              ELSE MULTIPACK_INDEX_OBJECT_OFFSETS_ID,
              IF kind = "beyond_trailer" THEN b + l1 + l2 + l3 + l4
              ELSE b + l1 + l2 + l3>>,
            <<0, b + l1 + l2 + l3 + l4>> >>

RECURSIVE TableBytes(_)
TableBytes(table) ==
    IF table = <<>> THEN <<>>
    ELSE write_chunk_header(Head(table)[1], Head(table)[2]) \o TableBytes(Tail(table))

\* The file with the chunk table table and the writer's four chunks.
AssembleTable(c, table) ==
    WithTrailer(
        HeaderBytes(Len(table) - 1, c.packfiles) \o TableBytes(table) \o
        c.packfile_names \o c.oid_fanout \o c.oid_lookup \o c.object_offsets)

TableForged(kind, dc) ==
    /\ dc.ok
    /\ Len(dc.c.oid_lookup) > 0
    /\ Len(dc.c.object_large_offsets) = 0
    /\ disk' = [by |-> kind,
                data |-> AssembleTable(dc.c,
                    ForgedTable(kind,
                        HeaderSize + (IF kind = "empty_loff" THEN 6 ELSE 5)
                                         * ChunkHeaderSize,
                        Len(dc.c.packfile_names), Len(dc.c.oid_fanout),
                        Len(dc.c.oid_lookup), Len(dc.c.object_offsets)))]

\* The file is written by another program with a chunk table of its own.
TableForge(kind) ==
    /\ disk.by = "none"
    /\ dumps = <<>>
    /\ TableForged(kind, DumpChunks(SortPacks(w_packs)))
    /\ UNCHANGED <<w_packs, add_order, dumps, opened, looked, refresh>>
    /\ UNCHANGED <<cacheVars, mwVars, rtVars, szVars>>

Forged(kind, dc) ==
    /\ dc.ok
    /\ Len(dc.c.oid_lookup) > 0
    /\ disk' = [by |-> kind, data |-> Assemble(ForgedChunks(kind, dc.c))]

\* The file that git_multipack_index_open will read is written by another
\* program: it has the writer's layout and a matching trailer.
Forge(kind) ==
    /\ disk.by = "none"
    /\ Forged(kind, DumpChunks(SortPacks(w_packs)))
    /\ UNCHANGED <<w_packs, add_order, dumps, opened, looked, refresh>>
    /\ UNCHANGED <<cacheVars, mwVars, rtVars, szVars>>

IndexOpened(r) ==
    opened' = [done |-> TRUE, error |-> r.error, message |-> r.message,
               idx |-> IF r.error < 0 THEN NewIdx ELSE r.idx]

\* git_multipack_index_open of the file.
IndexOpen ==
    /\ disk.by # "none"
    /\ ~opened.done
    /\ IndexOpened(git_multipack_index_parse(NewIdx, disk.data, Len(disk.data)))
    /\ UNCHANGED <<w_packs, add_order, dumps, disk, looked, refresh>>
    /\ UNCHANGED <<cacheVars, mwVars, rtVars, szVars>>

\* The image with bit number bit of the byte at offset pos inverted.
FlipBit(data, pos, bit) ==
    [data EXCEPT ![pos + 1] =
        IF (@ \div 2^bit) % 2 = 1 THEN @ - 2^bit ELSE @ + 2^bit]

\* The offsets at which the file is damaged: the header, the start of the
\* chunk table and the last byte of the last chunk.
FlipOffsets(data) == (0..MaxFlipOffset) \cup {Len(data) - GIT_OID_RAWSZ - 1}

FlipBits == {0, 2, 7}

\* One bit of a file that git_multipack_index_parse accepts is inverted on
\* disk, in front of the trailer, before the file is opened.
Corrupt(pos, bit) ==
    /\ disk.by = "commit"
    /\ ~opened.done
    /\ git_multipack_index_parse(NewIdx, disk.data, Len(disk.data)).error = 0
    /\ disk' = [by |-> "flip", data |-> FlipBit(disk.data, pos, bit)]
    /\ UNCHANGED <<w_packs, add_order, dumps, opened, looked, refresh>>
    /\ UNCHANGED <<cacheVars, mwVars, rtVars, szVars>>

\* The first len hex digits of oid, and zeros.
Prefix(oid, len) ==
    [i \in 1..GIT_OID_RAWSZ |->
        IF 2 * i <= len THEN oid[i]
        ELSE IF 2 * i - 1 = len THEN (oid[i] \div 16) * 16
        ELSE 0]

QueryOids ==
    {Oid(0, 16, 1), Oid(171, 205, 1), Oid(171, 205, 2), Oid(171, 16, 0),
     Oid(255, 0, 0), Oid(171, 205, 3)}

QueryLens == {1, 2, 3, 4, 39, GIT_OID_HEXSZ}

EntryFound(short_oid, len, r) ==
    looked' = [done |-> TRUE, short_oid |-> short_oid, len |-> len,
               ret |-> r.ret, e |-> r.e]

\* git_multipack_index_entry_find(&e, idx, short_oid, len) on the open index.
EntryFind(short_oid, len) ==
    /\ opened.done
    /\ opened.error = 0
    /\ ~refresh.done
    /\ EntryFound(short_oid, len,
           git_multipack_index_entry_find(opened.idx, disk.data, short_oid, len))
    /\ UNCHANGED <<w_packs, add_order, dumps, disk, opened, refresh>>
    /\ UNCHANGED <<cacheVars, mwVars, rtVars, szVars>>

\* git_multipack_index_needs_refresh(idx, path): len is idx->index_map.len,
\* file is what is at path.  The seek to 20 bytes before the end fails on a
\* file of fewer than 20 bytes.
git_multipack_index_needs_refresh(idx, len, file) ==
    IF file.st = "missing" THEN TRUE
    ELSE IF file.st = "nostat" THEN TRUE
    ELSE IF file.st # "reg" \/ Len(file.data) # len THEN TRUE
    ELSE IF Len(file.data) < GIT_OID_RAWSZ THEN TRUE
    ELSE IF file.st = "noread" THEN TRUE
    ELSE git_oid_cmp(OidAt(file.data, Len(file.data) - GIT_OID_RAWSZ),
                     idx.checksum) = 0

\* What may be at the path of an index that has been opened from the image
\* data: the same file; one of the same length that another writer wrote;
\* one with the same trailer and another body; a shorter and a longer one;
\* no file, a directory, and a file on which fstat or read fails.
RefreshFiles(data) ==
    {File("reg", data),
     File("reg", WithTrailer(FlipBit(SubSeq(data, 1, Len(data) - GIT_OID_RAWSZ),
                                     Len(data) - GIT_OID_RAWSZ - 1, 0))),
     File("reg", FlipBit(data, Len(data) - GIT_OID_RAWSZ - 1, 0)),
     File("reg", SubSeq(data, 1, Len(data) - 1)),
     File("reg", data \o <<0>>),
     File("missing", <<>>),
     File("dir", <<>>),
     File("nostat", data),
     File("noread", data)}

Refreshed(file, ret) ==
    refresh' = [done |-> TRUE, file |-> file, ret |-> ret]

\* git_multipack_index_needs_refresh(idx, path) on the open index.
NeedsRefresh(file) ==
    /\ opened.done
    /\ opened.error = 0
    /\ ~looked.done
    /\ ~refresh.done
    /\ Refreshed(file, git_multipack_index_needs_refresh(opened.idx, Len(disk.data), file))
    /\ UNCHANGED <<w_packs, add_order, dumps, disk, opened, looked>>
    /\ UNCHANGED <<cacheVars, mwVars, rtVars, szVars>>

NextMidx ==
    \/ \E p \in PackIds : WriterAdd(p)
    \/ WriterDump
    \/ WriterCommit
    \/ \E kind \in ForgeKinds : Forge(kind)
    \/ \E kind \in TableForgeKinds : TableForge(kind)
    \/ \E pos \in FlipOffsets(disk.data), bit \in FlipBits : Corrupt(pos, bit)
    \/ IndexOpen
    \/ \E oid \in QueryOids, len \in QueryLens : EntryFind(Prefix(oid, len), len)
    \/ \E file \in RefreshFiles(disk.data) : NeedsRefresh(file)

(***************************************************************************)
(* The length checks of the parser on files of any size                    *)
(*                                                                         *)
(* A file is given by its sizes alone: the last entry of its OID Fanout    *)
(* table and the lengths of its chunks, which lie in the order in which    *)
(* the writer lays them out, the trailer behind them.  Its header, chunk   *)
(* table, pack names and trailer are well formed and its fanout table is   *)
(* monotonic.  ascending says that the 20-byte values from the start of    *)
(* the OID Lookup chunk on, as far as they lie inside the file, are each   *)
(* above the one before it and the first above zero.                       *)
(***************************************************************************)
NoLayout ==
    [mapped |-> FALSE, num_objects |-> Wide(0), oid_fanout |-> Wide(0),
     oid_lookup |-> Wide(0), object_offsets |-> Wide(0),
     object_large_offsets |-> Wide(0), ascending |-> FALSE]

NoVerdict == [done |-> FALSE, error |-> 0, message |-> "", outside |-> FALSE]

InitSizes ==
    /\ layout = NoLayout
    /\ verdict = NoVerdict

\* The numbers of objects: 1, 2, the last for which 20 * N is below 2^32 and
\* the one behind it, 2^29 + 1, 2^30 + 1 and 2^32 - 1.
ObjectCounts ==
    {Wide(1), Wide(2), Wide(214748364), Wide(214748365), Wide(536870913),
     Wide(1073741825), [up |-> 0, hi |-> 65535, lo |-> 65535]}

\* The bytes from the start of the OID Lookup chunk to the end of the file.
BehindLookup(f) ==
    WidePlus(WidePlus(f.oid_lookup, f.object_offsets),
             WidePlus(f.object_large_offsets, Wide(GIT_OID_RAWSZ)))

\* The length that lets the chunks behind the OID Lookup chunk's start
\* hold num_objects values of 20 bytes.
FillLength(num_objects, oid_lookup, object_offsets) ==
    IF WideLeq(WidePlus(oid_lookup, object_offsets), WideTimes(num_objects, 20))
    THEN WideMinus(WideTimes(num_objects, 20), WidePlus(oid_lookup, object_offsets))
    ELSE Wide(0)

LookupLengths(n) == {WideTimes(n, 20), Times32(n, 20), Wide(20)}

OffsetsLengths(n) == {WideTimes(n, 8), Times32(n, 8)}

LargeLengths(n, l, o) == {Wide(0), Wide(8), Wide(4), FillLength(n, l, o)}

\* git_futils_mmap_ro of a file with these sizes.
MapFile(n, fanout, l, o, large, ascending) ==
    /\ ~layout.mapped
    /\ layout' = [mapped |-> TRUE, num_objects |-> n, oid_fanout |-> fanout,
                  oid_lookup |-> l, object_offsets |-> o,
                  object_large_offsets |-> large, ascending |-> ascending]
    /\ UNCHANGED verdict
    /\ UNCHANGED <<cacheVars, mwVars, midxVars, rtVars>>

SizesError(message) ==
    [done |-> TRUE, error |-> -1, message |-> message, outside |-> FALSE]

\* multipack_index_parse_object_large_offsets on the sizes.
SizesLargeOffsets(f, outside) ==
    IF f.object_large_offsets = Wide(0)
    THEN [done |-> TRUE, error |-> 0, message |-> "", outside |-> outside]
    ELSE IF f.object_large_offsets.lo % 8 # 0
    THEN SizesError("malformed Object Large Offsets chunk")
    ELSE [done |-> TRUE, error |-> 0, message |-> "", outside |-> outside]

\* multipack_index_parse_object_offsets on the sizes.
SizesObjectOffsets(f, outside) ==
    IF f.object_offsets = Wide(0)
    THEN SizesError("empty Object Offsets chunk")
    ELSE IF f.object_offsets # Times32(f.num_objects, 8)
    THEN SizesError("Object Offsets chunk has wrong length")
    ELSE SizesLargeOffsets(f, outside)

\* multipack_index_parse_oid_lookup on the sizes.  When the loop of lines
\* 125-129 runs over values that ascend as far as the file goes and the
\* file ends before entry num_objects, it reads behind the mapped file:
\* beyond is what those reads give, values that go on ascending ("ascending"),
\* one that does not ("non-monotonic"), or a fault ("fault").
SizesOidLookup(f, beyond) ==
    IF f.oid_lookup = Wide(0)
    THEN SizesError("empty OID Lookup chunk")
    ELSE IF f.oid_lookup # Times32(f.num_objects, 20)
    THEN SizesError("OID Lookup chunk has wrong length")
    ELSE IF ~f.ascending
    THEN SizesError("OID Lookup index is non-monotonic")
    ELSE IF WideLeq(WideTimes(f.num_objects, 20), BehindLookup(f))
    THEN SizesObjectOffsets(f, FALSE)
    ELSE IF beyond = "ascending" THEN SizesObjectOffsets(f, TRUE)
    ELSE IF beyond = "non-monotonic"
    THEN [SizesError("OID Lookup index is non-monotonic") EXCEPT !.outside = TRUE]
    ELSE [done |-> TRUE, error |-> -2, message |-> "fault", outside |-> TRUE]

\* multipack_index_parse_oid_fanout on the sizes.
SizesOidFanout(f, beyond) ==
    IF f.oid_fanout = Wide(0)
    THEN SizesError("empty OID Fanout chunk")
    ELSE IF f.oid_fanout # Wide(FanoutEntries * 4)
    THEN SizesError("OID Fanout chunk has wrong length")
    ELSE SizesOidLookup(f, beyond)

BeyondKinds == {"ascending", "non-monotonic", "fault"}

\* git_multipack_index_parse of the mapped file.
ParseSizes(beyond) ==
    /\ layout.mapped
    /\ ~verdict.done
    /\ verdict' = SizesOidFanout(layout, beyond)
    /\ UNCHANGED layout
    /\ UNCHANGED <<cacheVars, mwVars, midxVars, rtVars>>

NextSizes ==
    \/ \E n \in ObjectCounts, fanout \in {Wide(FanoutEntries * 4), Wide(1020)},
          ascending \in BOOLEAN :
          \E l \in LookupLengths(n), o \in OffsetsLengths(n) :
              \E large \in LargeLengths(n, l, o) :
                  MapFile(n, fanout, l, o, large, ascending)
    \/ \E beyond \in BeyondKinds : ParseSizes(beyond)

\* The writer alone, given pack files of any name.
NextWriter ==
    \/ \E p \in AnyPackIds : WriterAdd(p)
    \/ WriterDump
    \/ WriterCommit
    \/ IndexOpen

(***************************************************************************)
(* The life cycle                                                          *)
(*                                                                         *)
(* The first state is the one that a successful git_mwindow_global_init    *)
(* leaves: the map and the mutex exist and the shutdown hook is            *)
(* registered.  No pack is cached while the run time is started and shut   *)
(* down, so the map is empty whenever it exists.                           *)
(***************************************************************************)
\* cache: git__pack_cache is not NULL.  mutex: "none" before the first
\* git_mutex_init, "init" after one, "freed" after git_mutex_free.  hook:
\* git_mwindow_global_shutdown is registered with the run time.
InitRuntime ==
    /\ runtime = [cache |-> TRUE, mutex |-> "init", hook |-> TRUE]
    /\ life = <<>>

\* The call of git_mwindow_global_init that fails: "mutex" git_mutex_init,
\* "strmap" git_strmap_new, "register" git_runtime_shutdown_register.
InitFailures == {"none", "mutex", "strmap", "register"}

\* An init that installs a map over the one that exists.
InitOverExisting(rt, fail) ==
    [ret |-> 0, rt |-> [cache |-> TRUE, mutex |-> "init", hook |-> TRUE]]

\* git_mwindow_global_init: what it returns and the state it leaves.
\* GIT_ASSERT returns -1.
git_mwindow_global_init(rt, fail) ==
    IF rt.cache THEN [ret |-> -1, rt |-> rt]
    ELSE IF fail = "mutex" THEN [ret |-> -1, rt |-> rt]
    ELSE IF fail = "strmap" THEN [ret |-> -1, rt |-> [rt EXCEPT !.mutex = "init"]]
    ELSE IF fail = "register"
    THEN [ret |-> -1, rt |-> [rt EXCEPT !.mutex = "init", !.cache = TRUE]]
    ELSE [ret |-> 0, rt |-> [cache |-> TRUE, mutex |-> "init", hook |-> TRUE]]

\* git_mwindow_global_shutdown.
git_mwindow_global_shutdown(rt) ==
    [rt EXCEPT !.mutex = "freed", !.cache = FALSE]

\* The shutdown of the run time: it calls the hooks that are registered and
\* forgets them.
RuntimeShutdownOf(rt) ==
    IF rt.hook
    THEN [git_mwindow_global_shutdown(rt) EXCEPT !.hook = FALSE]
    ELSE rt

Called(op, fail, ret, after) ==
    /\ runtime' = after
    /\ life' = Append(life, [op |-> op, fail |-> fail, ret |-> ret,
                             before |-> runtime, after |-> after])

GlobalInitDone(fail, r) == Called("init", fail, r.ret, r.rt)

GlobalInit(fail) ==
    /\ Len(life) < MaxCalls
    /\ GlobalInitDone(fail, git_mwindow_global_init(runtime, fail))
    /\ UNCHANGED <<cacheVars, mwVars, midxVars, szVars>>

RuntimeShutdown ==
    /\ Len(life) < MaxCalls
    /\ Called("shutdown", "none", 0, RuntimeShutdownOf(runtime))
    /\ UNCHANGED <<cacheVars, mwVars, midxVars, szVars>>

NextRuntime ==
    \/ \E fail \in InitFailures : GlobalInit(fail)
    \/ RuntimeShutdown

Init == InitCache /\ InitMw /\ InitMidx /\ InitRuntime /\ InitSizes

SpecCache == Init /\ [][NextCache]_vars

SpecLock == Init /\ [][NextLock]_vars

SpecMwc == Init /\ [][NextMwc]_vars

SpecMidx == Init /\ [][NextMidx]_vars

SpecWriter == Init /\ [][NextWriter]_vars

SpecSizes == Init /\ [][NextSizes]_vars

SpecRuntime == Init /\ [][NextRuntime]_vars

(***************************************************************************)
(* The pack-handle cache: properties                                       *)
(***************************************************************************)
CountIn(s, h) == Cardinality({i \in 1..Len(s) : s[i] = h})

\* Thread t is inside a get that has counted its reference to h and has not
\* failed, or inside a put of h that has not yet decremented.
InFlight(t, h) ==
    /\ tloc[t].pack = h
    /\ \/ tpc[t] \in {"get_set", "get_unlock", "get_ret"} /\ tloc[t].error = 0
       \/ tpc[t] \in {"put_lock", "put_body"}

\* The gets of h not yet matched by a put.
Refs(h) ==
    LET hold[t \in 0..NThreads] ==
            IF t = 0 THEN 0
            ELSE hold[t - 1] + CountIn(held[t], h) + (IF InFlight(t, h) THEN 1 ELSE 0)
    IN hold[NThreads]

InMap(h) == packs[h].live /\ pack_cache[packs[h].pack_name] = h

\* The handle of a get whose git_strmap_set failed: unlocked, not yet freed.
Discarded(h) ==
    \E t \in Threads : tpc[t] = "get_ret" /\ tloc[t].error < 0 /\ tloc[t].pack = h

HandleOk(h) ==
    /\ InMap(h) <=> packs[h].refcount >= 1
    /\ packs[h].refcount = Refs(h)

\* Every reference names a live handle, and one name has one handle.
RefsOk ==
    /\ \A n \in Names : pack_cache[n] # 0 =>
           packs[pack_cache[n]].live /\ packs[pack_cache[n]].pack_name = n
    /\ \A t \in Threads : \A i \in 1..Len(held[t]) : InMap(held[t][i])
    /\ \A t \in Threads :
           tpc[t] = "get_ret" /\ tloc[t].error = 0 =>
               InMap(tloc[t].pack) /\ packs[tloc[t].pack].pack_name = tloc[t].packname
    /\ \A h \in Handles : ~packs[h].live => Refs(h) = 0

\* C1 as stated: whenever the mutex is free, every handle is in the map iff
\* its refcount is >= 1, its refcount is the number of unmatched gets, and
\* every reference to a name is to the one handle the map holds for it.
C1_AsStated ==
    mutex = 0 => RefsOk /\ \A h \in Handles : packs[h].live => HandleOk(h)

\* C1 amended: the same, of every handle but the one a get is about to free
\* because its insertion into the map failed (such a handle has refcount 1,
\* is in no map, was returned to nobody and is freed by that get).
C1_RefcountInvariant ==
    mutex = 0 =>
        /\ RefsOk
        /\ \A h \in Handles : packs[h].live /\ ~Discarded(h) => HandleOk(h)
        /\ \A h \in Handles : Discarded(h) =>
               ~InMap(h) /\ packs[h].refcount = 1 /\ Refs(h) = 0

\* Both threads hold the same handle, returned by two gets of one name.
C1_Witness ==
    /\ mutex = 0
    /\ \E h \in Handles :
          /\ packs[h].refcount = 2
          /\ CountIn(held[1], h) = 1
          /\ CountIn(held[2], h) = 1
    /\ tret[1] = 0 /\ tret[2] = 0

(***************************************************************************)
(* The mapped-window cache: properties                                     *)
(***************************************************************************)
Registered(f) == \E i \in 1..Len(windowfiles) : windowfiles[i] = f

\* The windows linked from w on.
RECURSIVE WindowsFrom(_)
WindowsFrom(w) == IF w = 0 THEN {} ELSE {w} \cup WindowsFrom(win[w].next)

WindowsOf(f) == WindowsFrom(mwf[f].windows)

\* The cursors whose slot names window a.
PinsOf(a) == Cardinality({c \in Cursors : cursor[c] = a})

\* C2: at every quiescent point ctl.mapped is the sum of the lengths of the
\* live windows and ctl.open_windows is the number of live windows, also
\* after a call in which the mmap attempts of new_window failed.
C2_MappedAccounting ==
    mutex = 0 =>
        /\ ctl.mapped = SumLen(LiveWins)
        /\ ctl.open_windows = Cardinality(LiveWins)

\* C3: no window is unmapped or freed while its inuse_cnt is above 0: every
\* window that a call released (by the eviction of a window, the eviction
\* of a file, or free_all) had inuse_cnt 0 when it was released.
C3_NoPinnedWindowFreed == last_freed \subseteq {0}

\* A call released an unused window and passed over the window used least
\* recently, which a cursor has pinned.
C3_Witness ==
    /\ last_freed = {0}
    /\ \E a \in LiveWins :
          /\ win[a].inuse_cnt > 0
          /\ win[a].last_used = 0
          /\ \E c \in Cursors : cursor[c] = a
    /\ ctl.used_ctr >= 2

\* The window the cursor names after call r has the range offset..offset+extra.
Covers(r, offset, extra) ==
    r.ret =>
        /\ r.m.win[r.cursor].offset <= offset
        /\ offset + extra < r.m.win[r.cursor].offset + r.m.win[r.cursor].len

\* C4: every successful git_mwindow_open(file, cursor, offset, extra) leaves
\* the cursor naming a window w with w.offset <= offset and
\* offset + extra < w.offset + w.len; stated here of the calls whose range
\* lies inside the file, where the pointer is to be valid for extra+1 bytes.
C4_OpenCoversRange ==
    \A f \in Files, c \in Cursors, offset \in 0..(MaxFileSize - 1),
       extra \in 0..MaxExtra :
        OpenCall(f, c, offset, extra) /\ offset + extra < FileSize(f) =>
            \A ch \in OpenChoices(f, cursor[c], offset, extra) :
                Covers(OpenResult(f, c, offset, extra, ch), offset, extra)

\* C5: after any sequence of git_mwindow_open and git_mwindow_close calls,
\* also one in which git_mwindow_open returned NULL, the inuse_cnt of every
\* live window is the number of cursors that name it, every cursor that is
\* not NULL names a live window, and no inuse_cnt is below 0.
C5_PinAccounting ==
    mutex = 0 =>
        /\ \A a \in LiveWins : win[a].inuse_cnt = PinsOf(a)
        /\ \A c \in Cursors : cursor[c] # 0 => win[cursor[c]].live
        /\ \A a \in Addrs : win[a].inuse_cnt >= 0

\* State m, left by a deregister of file f whose windows were ws, has none
\* of them: they are unmapped, not counted, and named by no cursor.
DeregisterReleased(m, f, ws) ==
    /\ \A i \in 1..Len(m.windowfiles) : m.windowfiles[i] # f
    /\ m.mwf[f].windows = 0
    /\ \A a \in ws : ~m.win[a].live
    /\ m.ctl.mapped = ctl.mapped - SumLen(ws)
    /\ m.ctl.open_windows = ctl.open_windows - Cardinality(ws)
    /\ \A c \in Cursors : cursor[c] \notin ws

\* C6 as stated: git_mwindow_file_deregister removes the file from the list
\* of windowed files and releases all of its mappings.
C6_AsStated ==
    \A f \in Files :
        Registered(f) =>
            DeregisterReleased(git_mwindow_file_deregister(Mw, f), f, WindowsOf(f))

\* State m, left by a deregister of file f, differs from the state before
\* only in the list of windowed files.
DeregisterKept(m, f) ==
    /\ m.windowfiles = VectorRemove(windowfiles, f)
    /\ \A i \in 1..Len(m.windowfiles) : m.windowfiles[i] # f
    /\ m.win = win
    /\ m.mwf = mwf
    /\ m.ctl = ctl
    /\ m.freed = {}

\* The windows ws of file f, none in use, are released in state r.m, left by
\* git_mwindow_free_all_locked.
FreeAllReleased(r, f, ws) ==
    (\A a \in ws : win[a].inuse_cnt = 0) =>
        /\ r.ret = 0
        /\ r.m.mwf[f].windows = 0
        /\ \A a \in ws : ~r.m.win[a].live
        /\ r.m.ctl.mapped = ctl.mapped - SumLen(ws)
        /\ r.m.ctl.open_windows = ctl.open_windows - Cardinality(ws)
        /\ \A i \in 1..Len(r.m.windowfiles) : r.m.windowfiles[i] # f

\* C6 amended: git_mwindow_file_deregister removes the file from the list of
\* windowed files and nothing else (its windows stay mapped, counted in
\* ctl.mapped and ctl.open_windows, and named by their cursors); it is
\* git_mwindow_free_all that releases the windows of a file, when none of
\* them is in use.
C6_DeregisterOnlyUnlists ==
    \A f \in Files :
        /\ Registered(f) => DeregisterKept(git_mwindow_file_deregister(Mw, f), f)
        /\ FreeAllReleased(git_mwindow_free_all_locked(Mw, f), f, WindowsOf(f))

\* A file that left the list of windowed files with its descriptor open
\* still has a mapped window, which ctl counts and a cursor names.
C6_Witness ==
    \E f \in Files :
        /\ ~Registered(f)
        /\ mwf[f].fd >= 0
        /\ mwf[f].windows # 0
        /\ win[mwf[f].windows].live
        /\ ctl.open_windows >= 1
        /\ \E c \in Cursors : cursor[c] = mwf[f].windows

(***************************************************************************)
(* Properties of the multi-pack index                                      *)
(***************************************************************************)
\* The packs the writer was given.
InputPacks == {add_order[k] : k \in 1..Len(add_order)}

\* The position of pack p among the input packs in the order of their names.
NameRank(p) ==
    Cardinality({q \in InputPacks : Strcmp(PackName(q), PackName(p)) < 0})

\* The ".idx" names of the input packs in the order of the packs' names.
ExpectedNames ==
    [r \in 1..Cardinality(InputPacks) |->
        IdxName(Pool[CHOOSE p \in InputPacks : NameRank(p) = r - 1].name)]

\* The entries of input pack p, each with the position of its pack.
InputEntriesOf(p) ==
    {[sha1 |-> Pool[p].entries[k].sha1, offset |-> Pool[p].entries[k].offset,
      pack_index |-> NameRank(p)] : k \in 1..Len(Pool[p].entries)}

AllInputEntries == UNION {InputEntriesOf(p) : p \in InputPacks}

\* Entry pos of the tables of a parsed index, decoded from its bytes.
EntryAt(idx, data, pos) ==
    [pack_index |-> Ntohl(data, idx.object_offsets + pos * 8),
     offset |-> IF data[idx.object_offsets + pos * 8 + 5] >= 128
                THEN LargeOffsetAt(data, idx.object_large_offsets
                         + 8 * Low31(data, idx.object_offsets + pos * 8 + 4))
                ELSE [h |-> 0, l |-> Low31(data, idx.object_offsets + pos * 8 + 4)],
     sha1 |-> OidAt(data, idx.oid_lookup + pos * GIT_OID_RAWSZ)]

Positions == 0..(opened.idx.num_objects - 1)

OidOf(pos) == OidAt(disk.data, opened.idx.oid_lookup + pos * GIT_OID_RAWSZ)

\* C7: the image that the writer makes of one or more packs whose names
\* end in ".pack", with one object or more, is accepted by the parser; the
\* parsed names are the ".idx" names of the packs in the order of the
\* packs' names, and the parsed entries are the union of the packs'
\* entries, one for each hash, in the order of the hashes, each with the
\* position of its pack in that order.
C7_RoundTrip ==
    (/\ opened.done
     /\ disk.by = "commit"
     /\ AllInputEntries # {})
    => /\ opened.error = 0
       /\ opened.idx.packfile_names = ExpectedNames
       /\ \A pos \in Positions :
              EntryAt(opened.idx, disk.data, pos) \in AllInputEntries
       /\ \A pos \in Positions :
              pos > 0 => git_oid_cmp(OidOf(pos - 1), OidOf(pos)) < 0
       /\ {OidOf(pos) : pos \in Positions} = {e.sha1 : e \in AllInputEntries}

\* The orders in which the packs of the sequence s can be added.
Orders(s) ==
    {o \in [1..Len(s) -> {s[k] : k \in 1..Len(s)}] :
        \A i, j \in 1..Len(s) : i # j => o[i] # o[j]}

\* C8: when a dump returns, its image is the image of a dump of the same
\* packs added in any other order, and every dump of the writer gave the
\* same image.
C8_AddOrderIndependent ==
    (dumps # <<>> /\ disk.by = "none")
    => /\ \A o \in Orders(add_order) :
              git_multipack_index_writer_dump(o).midx = dumps[Len(dumps)]
       /\ \A k \in 1..Len(dumps) : dumps[k] = dumps[1]

\* Three packs were added in an order that is not the order of their
\* names, and the writer dumped them twice.
C8_Witness ==
    /\ Len(add_order) = 3
    /\ add_order # w_packs
    /\ Len(dumps) = 2
    /\ Len(dumps[1]) > HeaderSize
    /\ disk.by = "none"

\* C9: in an index that the parser accepted, a lookup of the whole hash at
\* a position of the OID Lookup table returns 0 and the entry at that
\* position: that hash, the pack index and the offset of the position.
C9_FindEveryEntry ==
    \A pos \in Positions :
        (/\ looked.done
         /\ looked.len = GIT_OID_HEXSZ
         /\ looked.short_oid = OidOf(pos))
        => /\ looked.ret = "OK"
           /\ looked.e = EntryAt(opened.idx, disk.data, pos)

\* Two entries of the parsed index at different positions start with the
\* first len hex digits of short_oid.
SharedPrefix(short_oid, len) ==
    \E pos1, pos2 \in Positions :
        /\ pos1 # pos2
        /\ OidNcmpEqual(short_oid, OidOf(pos1), len)
        /\ OidNcmpEqual(short_oid, OidOf(pos2), len)

\* C10: in a parsed index, a lookup of a prefix that two entries share,
\* followed by zeros, returns the ambiguity error and no entry; a lookup of
\* the 40 digits of an entry returns that entry.
C10_PrefixAmbiguity ==
    looked.done
    => /\ (looked.len < GIT_OID_HEXSZ /\ SharedPrefix(looked.short_oid, looked.len))
              => (looked.ret = "GIT_EAMBIGUOUS" /\ looked.e = NoEntry)
       /\ \A pos \in Positions :
              (looked.len = GIT_OID_HEXSZ /\ looked.short_oid = OidOf(pos))
              => (looked.ret = "OK" /\ looked.e.sha1 = OidOf(pos))


(***************************************************************************)
(* The checksum of the multi-pack index: properties                        *)
(***************************************************************************)
MismatchMessage == "index signature mismatch"

ParseFailsWith(r, message) == r.error < 0 /\ r.message = message

\* The message of the first check of git_multipack_index_parse that a file
\* fails whose only damage is at offset pos: flipped is the damaged image.
\* The signature, the version and the chunk count are checked before the
\* digest is computed.
FlipMessage(flipped, pos) ==
    IF pos < 6
    THEN "unsupported multi-pack index version"
    ELSE IF pos = 6 /\ flipped[7] = 0
    THEN "no chunks in multi-pack index"
    ELSE IF /\ pos = 6
            /\ Len(flipped) - GIT_OID_RAWSZ
                   < HeaderSize + (1 + flipped[7]) * ChunkHeaderSize
    THEN "wrong index size"
    ELSE MismatchMessage

FlipRejected(flipped, pos) ==
    ParseFailsWith(git_multipack_index_parse(NewIdx, flipped, Len(flipped)),
                   FlipMessage(flipped, pos))

\* The offsets in front of the trailer at which every bit is inverted in
\* turn: all of the header and the chunk table, and in the chunks every
\* FlipStride-th byte and the last byte.
CheckedOffsets(data) ==
    {pos \in 0..(Len(data) - GIT_OID_RAWSZ - 1) :
        \/ pos < HeaderSize + (1 + data[7]) * ChunkHeaderSize
        \/ pos % FlipStride = 0
        \/ pos = Len(data) - GIT_OID_RAWSZ - 1}

\* The file is one that the writer committed and open accepted.
AcceptedCommit ==
    /\ disk.by = "commit"
    /\ opened.done
    /\ opened.error = 0
    /\ dumps = <<>>
    /\ ~looked.done
    /\ ~refresh.done

\* C11 as the specification states it: a file with one bit inverted in front
\* of the trailer is rejected with the error of the checksum mismatch.
C11_AsStated ==
    (disk.by = "flip" /\ opened.done)
        => ParseFailsWith(opened, MismatchMessage)

\* C11: every file that differs in one bit, in front of the trailer, from a
\* file that parse accepts is rejected by parse; the error is the checksum
\* mismatch unless the bit is in the signature, the version or the object-id
\* version (unsupported version), or in the chunk count and makes it zero (no
\* chunks) or too large for the file (wrong index size).
C11_BitFlipRejected ==
    /\ (disk.by = "flip" /\ opened.done) => opened.error < 0
    /\ AcceptedCommit =>
           \A pos \in CheckedOffsets(disk.data), bit \in 0..7 :
               FlipRejected(FlipBit(disk.data, pos, bit), pos)

C11_Witness ==
    /\ disk.by = "flip"
    /\ opened.done
    /\ ParseFailsWith(opened, MismatchMessage)
    /\ disk.data[8] = 1

(***************************************************************************)
(* git_multipack_index_needs_refresh: properties                           *)
(***************************************************************************)
\* The file is not the one the index was opened from: it cannot be read as
\* a regular file, or its length or its last 20 bytes differ.
RefreshNeeded(idx, len, file) ==
    \/ file.st # "reg"
    \/ Len(file.data) # len
    \/ OidAt(file.data, Len(file.data) - GIT_OID_RAWSZ) # idx.checksum

\* C12: git_multipack_index_needs_refresh returns true exactly when the file
\* is missing, unreadable, not regular, of another length than the mapping,
\* or has last 20 bytes that differ from the checksum of the index, and
\* false when the length and the trailer are those of the index.
C12_NeedsRefreshExact ==
    refresh.done =>
        (refresh.ret <=> RefreshNeeded(opened.idx, Len(disk.data), refresh.file))

(***************************************************************************)
(* The tables of a parsed index: properties                                *)
(***************************************************************************)
\* Entry i of the OID Fanout table of the open index.
FanoutAt(i) == Ntohl(disk.data, opened.idx.oid_fanout + 4 * i)

\* The number of hashes of the OID Lookup table whose first byte is at most i.
HashesUpTo(i) == Cardinality({pos \in Positions : OidOf(pos)[1] <= i})

LookupAscending ==
    /\ opened.idx.num_objects > 0 => git_oid_cmp(ZeroOid, OidOf(0)) < 0
    /\ \A pos \in Positions :
           pos > 0 => git_oid_cmp(OidOf(pos - 1), OidOf(pos)) < 0

FanoutMonotone ==
    /\ \A i \in 0..(FanoutEntries - 2) : FanoutAt(i) <= FanoutAt(i + 1)
    /\ FanoutAt(FanoutEntries - 1) = opened.idx.num_objects

FanoutConsistent == \A i \in 0..(FanoutEntries - 1) : FanoutAt(i) = HashesUpTo(i)

\* An index that open accepted and that has not been used yet.
JustOpened ==
    /\ opened.done
    /\ opened.error = 0
    /\ ~looked.done
    /\ ~refresh.done

\* C13: in every file that git_multipack_index_parse accepts, the OID Lookup
\* table is strictly ascending from above the zero hash, the OID Fanout
\* table is monotonic and ends in the number of objects, and fanout entry i
\* is the number of hashes whose first byte is at most i.
C13_ParsedTablesConsistent ==
    JustOpened => LookupAscending /\ FanoutMonotone /\ FanoutConsistent

\* The part of C13 that the parser enforces.
C13_Monotone == JustOpened => LookupAscending /\ FanoutMonotone

(***************************************************************************)
(* The life cycle: properties                                              *)
(***************************************************************************)
Calls == 1..Len(life)

\* Call i is an init that found the map of an earlier init.
InitOverMap(i) == life[i].op = "init" /\ life[i].before.cache

\* Call i is an init that found no map and in which nothing failed.
InitClean(i) ==
    life[i].op = "init" /\ ~life[i].before.cache /\ life[i].fail = "none"

\* Call i is a shutdown that ran git_mwindow_global_shutdown.
ShutdownRan(i) == life[i].op = "shutdown" /\ life[i].before.hook

Installed(rt) == rt.cache /\ rt.mutex = "init" /\ rt.hook

\* The state before the first call and the state after call i.
Before(i) ==
    IF i = 1 THEN [cache |-> TRUE, mutex |-> "init", hook |-> TRUE]
    ELSE life[i - 1].after

MaxOf(S) == CHOOSE x \in S : \A y \in S : x >= y

\* The files of the list that have a window and no window in use.
Evictable == {f \in Files : /\ Registered(f)
                            /\ WindowsOf(f) # {}
                            /\ \A a \in WindowsOf(f) : win[a].inuse_cnt = 0}

\* The last_used of the most recently used window of file f.
MruTick(f) == MaxOf({win[a].last_used : a \in WindowsOf(f)})

\* State r.m is the current state with file f evicted.
FileEvicted(r, f) ==
    /\ \A i \in 1..Len(r.m.windowfiles) : r.m.windowfiles[i] # f
    /\ \A g \in Files : g # f /\ Registered(g) =>
           \E i \in 1..Len(r.m.windowfiles) : r.m.windowfiles[i] = g
    /\ \A a \in WindowsOf(f) : ~r.m.win[a].live
    /\ r.m.mwf[f].windows = 0
    /\ r.m.mwf[f].fd = -1

\* The call git_mwindow_close_lru_file in the current state evicts, of the
\* files that have no window in use, the one whose most recently used
\* window is the oldest, and fails when there is none.
LruFileClosed(r) ==
    IF Evictable = {} THEN r.ret = -1
    ELSE /\ r.ret = 0
         /\ \E f \in Evictable :
                /\ \A g \in Evictable : MruTick(f) <= MruTick(g)
                /\ FileEvicted(r, f)

\* C15: git_mwindow_close_lru_file selects, among the registered files with
\* no pinned window, the file whose most recently used window has the
\* smallest last_used; it removes that file from the list, unmaps its
\* windows and sets its fd to -1; a file with a pinned window is never
\* selected.
C15_LruFileSelected == mutex = 0 => LruFileClosed(git_mwindow_close_lru_file(Mw))

\* The part of C15 that holds: the call evicts a file with no window in use,
\* with all of its windows, or fails.
LruFileUnpinned(r) ==
    IF Evictable = {} THEN r.ret = -1
    ELSE r.ret = 0 /\ \E f \in Evictable : FileEvicted(r, f)

C15_UnpinnedFileEvicted == mutex = 0 => LruFileUnpinned(git_mwindow_close_lru_file(Mw))

(***************************************************************************)
(* The file limit: properties                                              *)
(***************************************************************************)
\* The registered files that have no window in use.
Unpinned == {g \in Files : /\ Registered(g)
                           /\ \A a \in WindowsOf(g) : win[a].inuse_cnt = 0}

\* The state that a successful git_mwindow_file_register of f leaves.
RegisterOf(f) ==
    git_mwindow_file_register([Mw EXCEPT !.mwf[f].fd = 1], f, TRUE).m

RegisterWithin(m, limit) == Len(m.windowfiles) <= limit

RegisterEvictsNone(m, f) ==
    /\ m.windowfiles = Append(windowfiles, f)
    /\ m.win = win
    /\ m.ctl = ctl

\* C16: with a file limit L > 0 that the registered files have reached, a
\* registration leaves at most L files registered whenever a registered
\* file has no pinned window, also when that file has no window at all;
\* with file limit 0 a registration evicts no file.
C16_FileLimitEnforced ==
    \A f \in Files :
        (mutex = 0 /\ ~Registered(f)) =>
            /\ (/\ file_limit > 0
                /\ Len(windowfiles) >= file_limit
                /\ Unpinned # {})
                   => RegisterWithin(RegisterOf(f), file_limit)
            /\ file_limit = 0 => RegisterEvictsNone(RegisterOf(f), f)

\* What the registration does enforce: with every registered file evictable
\* (it has a window and none in use) the limit holds after the call, and
\* with file limit 0 no file is evicted.
C16_LimitWhenAllEvictable ==
    \A f \in Files :
        (mutex = 0 /\ ~Registered(f)) =>
            /\ (/\ file_limit > 0
                /\ \A g \in Files : Registered(g) => g \in Evictable)
                   => RegisterWithin(RegisterOf(f), file_limit)
            /\ file_limit = 0 => RegisterEvictsNone(RegisterOf(f), f)

(***************************************************************************)
(* The eviction of windows: properties                                     *)
(***************************************************************************)
\* The window list of state m from window w on.
RECURSIVE ListFrom(_, _)
ListFrom(m, w) == IF w = 0 THEN <<>> ELSE <<w>> \o ListFrom(m, m.win[w].next)

\* Sequence s without the element a.
Without(s, a) == SelectSeq(s, LAMBDA x : x # a)

\* The windows of the registered files that are not in use.
UnpinnedWindows ==
    {a \in Addrs : /\ win[a].inuse_cnt = 0
                   /\ \E f \in Files : Registered(f) /\ a \in WindowsOf(f)}

\* State m is the current state without window a: a is unmapped and out of
\* the list of its file, the counters are reduced by it, and every other
\* window is in its list, in its place, as it was.
WindowEvicted(m, a) ==
    /\ ~m.win[a].live
    /\ m.ctl.mapped = ctl.mapped - win[a].len
    /\ m.ctl.open_windows = ctl.open_windows - 1
    /\ m.ctl.used_ctr = ctl.used_ctr
    /\ m.windowfiles = windowfiles
    /\ \A f \in Files :
           /\ ListFrom(m, m.mwf[f].windows) = Without(ListFrom(Mw, mwf[f].windows), a)
           /\ m.mwf[f].fd = mwf[f].fd
    /\ \A b \in Addrs :
           b # a => [m.win[b] EXCEPT !.next = 0] = [win[b] EXCEPT !.next = 0]

\* What git_mwindow_close_lru_window returns in the current state.
LruWindowClosed(r) ==
    IF UnpinnedWindows = {}
    THEN r.ret = -1 /\ r.m = Mw
    ELSE /\ r.ret = 0
         /\ \E a \in UnpinnedWindows :
                /\ \A b \in UnpinnedWindows : win[a].last_used <= win[b].last_used
                /\ WindowEvicted(r.m, a)

\* C17: a call of git_mwindow_close_lru_window that succeeds removes exactly
\* one window, the one with the lowest last_used among the unpinned windows
\* of the registered files; it unlinks it from the list of its file, leaves
\* every other window linked and unchanged, and reduces ctl.mapped by its
\* length and ctl.open_windows by 1; the call fails, and changes nothing,
\* iff no registered file has an unpinned window.
C17_LruWindowEvicted == mutex = 0 => LruWindowClosed(git_mwindow_close_lru_window(Mw))

\* An open has just evicted a window, with two files registered, and
\* windows are left.
C17_Witness ==
    /\ mutex = 0
    /\ last_freed = {0}
    /\ Len(windowfiles) = 2
    /\ ctl.open_windows >= 2

(***************************************************************************)
(* The mapped limit: properties                                            *)
(***************************************************************************)
\* The windows of the files registered in state m.
RegisteredWindows(m) ==
    {a \in Addrs : \E i \in 1..Len(m.windowfiles) :
        \E k \in 1..Len(ListFrom(m, m.mwf[m.windowfiles[i]].windows)) :
            ListFrom(m, m.mwf[m.windowfiles[i]].windows)[k] = a}

\* In state m the mapped bytes are within the limit, or every window of a
\* registered file but window w is in use.
WithinLimitOrPinned(m, w) ==
    \/ m.ctl.mapped <= MappedLimit
    \/ \A a \in RegisteredWindows(m) : a # w => m.win[a].inuse_cnt # 0

\* The same, with in use read as a positive pin count.
WithinLimitOrHeld(m, w) ==
    \/ m.ctl.mapped <= MappedLimit
    \/ \A a \in RegisteredWindows(m) : a # w => m.win[a].inuse_cnt > 0

\* The calls of git_mwindow_open in the current state and their outcomes.
OpenCalls ==
    {<<f, c, offset, extra>> \in
         Files \X Cursors \X (0..(MaxFileSize - 1)) \X (0..MaxExtra) :
             mutex = 0 /\ OpenCall(f, c, offset, extra)}

\* Call o with choices ch is not refused: it returns NULL only when malloc
\* returned NULL or both mmap calls failed.
NotRefused(r, ch) == ~r.ret => (ch[1] = 0 \/ (ch[2] /\ ch[3]))

OpenSoft(r, ch, created_only) ==
    /\ NotRefused(r, ch)
    /\ (r.ret /\ (created_only => r.created))
           => WithinLimitOrPinned(r.m, IF r.created THEN r.cursor ELSE 0)

OpenHeld(r, ch) ==
    /\ NotRefused(r, ch)
    /\ (r.ret /\ r.created) => WithinLimitOrHeld(r.m, r.cursor)

\* C18 as the specification states it: after every successful open the
\* mapped bytes are within the limit or every other window of a registered
\* file is pinned.
C18_AsStated ==
    \A o \in OpenCalls : \A ch \in OpenChoices(o[1], cursor[o[2]], o[3], o[4]) :
        OpenSoft(OpenResult(o[1], o[2], o[3], o[4], ch), ch, FALSE)

\* C18: after every successful git_mwindow_open that allocated a window,
\* ctl.mapped is within mapped_limit or every window of every registered
\* file other than the new one has a pin count that is not 0; and an open
\* is refused only when malloc or both mmap calls fail.
C18_SoftMappedLimit ==
    \A o \in OpenCalls : \A ch \in OpenChoices(o[1], cursor[o[2]], o[3], o[4]) :
        OpenSoft(OpenResult(o[1], o[2], o[3], o[4], ch), ch, TRUE)

\* An open has allocated a window that took the mapped bytes over the limit
\* while every window was pinned.
C18_Witness ==
    /\ mutex = 0
    /\ open_failures = 0
    /\ ctl.mapped > MappedLimit
    /\ ctl.mapped = SumLen(LiveWins)
    /\ ctl.open_windows >= 2
    /\ \A a \in LiveWins : win[a].inuse_cnt > 0 /\ PinsOf(a) > 0
    /\ \E c \in Cursors :
           cursor[c] # 0 /\ win[cursor[c]].last_used = ctl.used_ctr - 1

\* The reading of C18 with every other window held by a cursor: it fails
\* after the failed open of C5 has left a pin count at 0 under a cursor.
C18_PositivePins ==
    \A o \in OpenCalls : \A ch \in OpenChoices(o[1], cursor[o[2]], o[3], o[4]) :
        OpenHeld(OpenResult(o[1], o[2], o[3], o[4], ch), ch)

(***************************************************************************)
(* The chunk table: properties                                             *)
(***************************************************************************)
\* The chunk table of the file on disk: the number of chunks, the id and the
\* offset of chunk i (from 0), the offset behind the table, the trailer.
TableChunks == disk.data[7]

TableId(i) ==
    ChunkOfId(SubSeq(disk.data, HeaderSize + ChunkHeaderSize * i + 1,
                     HeaderSize + ChunkHeaderSize * i + 4))

TrailerStart == Len(disk.data) - GIT_OID_RAWSZ

TableOffset(i) ==
    ChunkOffset(disk.data, HeaderSize + ChunkHeaderSize * i, TrailerStart)

TableEnd == HeaderSize + (TableChunks + 1) * ChunkHeaderSize

RequiredChunks == {"packfile_names", "oid_fanout", "oid_lookup", "object_offsets"}

\* A chunk offset is outside the chunks, or is not above the one before it,
\* or an id is unknown, or a required chunk is missing.
BadTable ==
    \/ \E i \in 0..(TableChunks - 1) :
           \/ TableOffset(i) < TableEnd
           \/ TableOffset(i) >= TrailerStart
           \/ i > 0 /\ TableOffset(i) <= TableOffset(i - 1)
           \/ TableId(i) = "unrecognized"
    \/ \E name \in RequiredChunks :
           \A i \in 0..(TableChunks - 1) : TableId(i) # name

\* The same, but an offset equal to the one before it is bad only behind a
\* required chunk.
BadTableEnforced ==
    \/ \E i \in 0..(TableChunks - 1) :
           \/ TableOffset(i) < TableEnd
           \/ TableOffset(i) >= TrailerStart
           \/ i > 0 /\ TableOffset(i) < TableOffset(i - 1)
           \/ i > 0 /\ TableOffset(i) = TableOffset(i - 1)
                    /\ TableId(i - 1) \in RequiredChunks
           \/ TableId(i) = "unrecognized"
    \/ \E name \in RequiredChunks :
           \A i \in 0..(TableChunks - 1) : TableId(i) # name

\* The file has the writer's header and a matching trailer and was opened.
OpenedWholeFile ==
    /\ opened.done
    /\ disk.by \notin {"none", "flip"}
    /\ ~looked.done
    /\ ~refresh.done

\* C19: git_multipack_index_parse rejects every file in which a chunk offset
\* is outside [header_end + (C+1)*12, trailer_start) or is not above the
\* offset of the chunk before it, whatever the ids of the chunks, and every
\* file with an unknown chunk id or without one of the required chunks.
C19_ChunkTableValidated == (OpenedWholeFile /\ BadTable) => opened.error < 0

\* The part of C19 that the parser enforces.
C19_Enforced == (OpenedWholeFile /\ BadTableEnforced) => opened.error < 0

(***************************************************************************)
(* C20: the offsets in the image of the writer                             *)
(***************************************************************************)
\* The entries the writer wrote: those of its packs, sorted by hash, one for
\* each hash.
WrittenEntries ==
    VectorUniq(SortEntries(DumpPacks(SortPacks(w_packs), 1, <<>>, <<>>).entries))

\* The chunk table of the file on disk has a chunk of this name; its offset.
HasChunk(name) == \E i \in 0..(TableChunks - 1) : TableId(i) = name

ChunkAt(name) ==
    TableOffset(CHOOSE i \in 0..(TableChunks - 1) : TableId(i) = name)

IsLarge(e) == e.offset.h > 0

\* The number of entries with a large offset in front of entry k (from 1).
LargeBefore(entries, k) ==
    Cardinality({j \in 1..(k - 1) : IsLarge(entries[j])})

\* The offset of the second word of entry k in the Object Offsets chunk.
OffsetWordAt(k) == ChunkAt("object_offsets") + 8 * (k - 1) + 4

\* Entry k is stored as C20 says.
EntryEncoded(entries, k) ==
    IF IsLarge(entries[k])
    THEN /\ disk.data[OffsetWordAt(k) + 1] >= 128
         /\ Low31(disk.data, OffsetWordAt(k)) = LargeBefore(entries, k)
         /\ HasChunk("object_large_offsets")
         /\ LargeOffsetAt(disk.data, ChunkAt("object_large_offsets")
                              + 8 * LargeBefore(entries, k)) = entries[k].offset
    ELSE /\ disk.data[OffsetWordAt(k) + 1] < 128
         /\ Low31(disk.data, OffsetWordAt(k)) = entries[k].offset.l

\* The Object Large Offsets chunk is there, as the fifth chunk, exactly when
\* an entry has a large offset.
LargeChunkPresent(entries) ==
    /\ TableChunks = (IF \E k \in 1..Len(entries) : IsLarge(entries[k])
                      THEN 5 ELSE 4)
    /\ HasChunk("object_large_offsets")
           <=> \E k \in 1..Len(entries) : IsLarge(entries[k])

\* find of the whole hash of entry e gives the offset of e.
FoundOffset(e, r) == r.ret = "OK" /\ r.e.offset = e.offset

FindsOffset(e) ==
    FoundOffset(e, git_multipack_index_entry_find(opened.idx, disk.data,
                                                  e.sha1, GIT_OID_HEXSZ))

ImageEncoded(entries) ==
    /\ HasChunk("object_offsets")
    /\ \A k \in 1..Len(entries) : EntryEncoded(entries, k)
    /\ LargeChunkPresent(entries)

\* C20: in the image the writer committed, every entry, in the order of the
\* hashes, with an offset below 2^31 has the offset itself in its word of the
\* Object Offsets chunk, the high bit clear; an entry with an offset of 2^31
\* or more has the high bit set and, in the other bits, the number k of the
\* entries with such an offset in front of it, and entry k of the Object
\* Large Offsets chunk is its 64-bit offset; that chunk is in the chunk table,
\* the chunk count being 5 and not 4, exactly when an entry has such an
\* offset; and find on the parsed image gives every entry its offset.
C20_LargeOffsetsEncoded ==
    /\ (disk.by = "commit" /\ ~opened.done /\ dumps = <<>>)
           => ImageEncoded(WrittenEntries)
    /\ AcceptedCommit
           => \A k \in 1..Len(WrittenEntries) : FindsOffset(WrittenEntries[k])

\* Find on the parsed image of the writer returned an offset of 2^31 or more
\* from the fifth chunk.
C20_Witness ==
    /\ disk.by = "commit"
    /\ TableChunks = 5
    /\ looked.done
    /\ looked.ret = "OK"
    /\ looked.len = GIT_OID_HEXSZ
    /\ looked.e.offset.h > 0
    /\ \E k \in 1..Len(WrittenEntries) :
           /\ WrittenEntries[k].sha1 = looked.short_oid
           /\ WrittenEntries[k].offset = looked.e.offset

(***************************************************************************)
(* C21: a pack file whose name does not end in ".pack"                     *)
(***************************************************************************)
RelativeName(p) == git_path_make_relative(PackName(p), PackDir)

\* The input packs whose names do not end in ".pack", and the packs of the
\* writer without them.
Unsuffixed == {p \in InputPacks : ~HasSuffix(RelativeName(p), DotPack)}

Suffixed(p) == p \notin Unsuffixed

RemainingPacks == SelectSeq(w_packs, Suffixed)

\* The writer has dumped; one of its packs has a name that does not end in
\* ".pack" and each of the others has a stem and ".pack".
DumpedWithUnsuffixed ==
    /\ dumps # <<>>
    /\ Cardinality(Unsuffixed) = 1
    /\ \A p \in InputPacks \ Unsuffixed : IsPackName(RelativeName(p))

\* C21: when the name of one input pack below the pack directory does not
\* end in ".pack", git_multipack_index_writer_dump leaves that pack out: it
\* succeeds and the buffer holds the whole image (header, chunk table,
\* chunks, trailer) of the other input packs.
C21_UnsuffixedPackSkipped ==
    DumpedWithUnsuffixed
        => dumps[Len(dumps)] = git_multipack_index_writer_dump(RemainingPacks).midx

\* What the writer does: with an input pack whose name is not a stem and
\* ".pack", the dump leaves the buffer as it was, empty, and the commit,
\* which the dump's 0 lets go on, writes a file of no bytes.
C21_DumpLeftEmpty ==
    (\E p \in InputPacks : ~IsPackName(RelativeName(p)))
        => /\ \A k \in 1..Len(dumps) : dumps[k] = <<>>
           /\ disk.by = "commit" => disk.data = <<>>
           /\ opened.done => opened.error < 0

(***************************************************************************)
(* C23: the mutex is released on every return path                         *)
(***************************************************************************)
\* Thread t is in no call and holds git__mwindow_mutex.
HoldsOutside(t) == tpc[t] = "idle" /\ mutex = t

\* A thread waits for the mutex, which a thread that is in no call holds:
\* none of the calls that could release it is in progress.
BlockedForever(t) ==
    /\ tpc[t] \in {"get_lock", "put_lock"}
    /\ \E u \in Threads : HoldsOutside(u)

\* C23: every operation that locks git__mwindow_mutex unlocks it on every
\* return path, the error returns included (git_mwindow_put_pack of a handle
\* whose name is not in the cache): a thread that has returned from its call
\* does not hold the mutex, so no later caller waits for it for ever.
C23_MutexReleased ==
    \A t \in Threads : ~HoldsOutside(t) /\ ~BlockedForever(t)

(***************************************************************************)
(* C22: the length checks of the parser                                    *)
(***************************************************************************)
Accepted == verdict.done /\ verdict.error = 0

\* The lengths of the chunks are what the number of objects asks for.
ExactLengths(f) ==
    /\ f.oid_fanout = Wide(FanoutEntries * 4)
    /\ f.oid_lookup = WideTimes(f.num_objects, GIT_OID_RAWSZ)
    /\ f.object_offsets = WideTimes(f.num_objects, 8)
    /\ f.object_large_offsets.lo % 8 = 0

\* The same, but for the low 32 bits of the two products only.
LengthsModulo(f) ==
    /\ f.oid_fanout = Wide(FanoutEntries * 4)
    /\ f.oid_lookup = Times32(f.num_objects, GIT_OID_RAWSZ)
    /\ f.object_offsets = Times32(f.num_objects, 8)
    /\ f.object_large_offsets.lo % 8 = 0

\* C22: in every file that git_multipack_index_parse accepts, N being the
\* last entry of the fanout table, whatever 32-bit value it is, the OID
\* Fanout chunk has 1024 bytes, the OID Lookup chunk 20 * N and the Object
\* Offsets chunk 8 * N, as integers and not modulo 2^32, and the length of
\* the Object Large Offsets chunk is a multiple of 8.
\* The files over whose end the parser read are left aside.
C22_ExactChunkLengths == (Accepted /\ ~verdict.outside) => ExactLengths(layout)

\* What the parser enforces: the lengths modulo 2^32, so the lengths
\* themselves when 20 * N is below 2^32.
C22_LengthsModulo ==
    Accepted
        => /\ LengthsModulo(layout)
           /\ WideLeq(layout.num_objects, Wide(214748364)) => ExactLengths(layout)

\* The file of 2^32 + 4 bytes of chunks behind the fanout table: 214748365
\* objects, 4 bytes of OID Lookup, was accepted.
C22_SmallestWrap ==
    /\ Accepted
    /\ ~verdict.outside
    /\ layout.num_objects = Wide(214748365)
    /\ layout.oid_lookup = Wide(4)
    /\ layout.object_offsets = WideTimes(Wide(214748365), 8)
=============================================================================
